---- MODULE Spec2Model ----
(***************************************************************************)
(* Verification model of the SmartWardrobe core: the usage ledger          *)
(* (shared/usageUtils), the in-memory item store (server/storage), the     *)
(* save-outfit handlers and the three outfit-generation paths              *)
(* (client OutfitEngine, POST /api/generate-outfit, POST                   *)
(* /api/generate-outfits).                                                 *)
(***************************************************************************)
EXTENDS Integers, Sequences, FiniteSets, TLC

VARIABLES
    items,      \* MemStorage.clothingItems: id -> item record, or NoItem
    nextItemId, \* MemStorage.currentClothingItemId
    outfits,    \* MemStorage.outfits: sequence of saved outfits
    reqs,       \* save-outfit requests in flight: slot -> request state
    resp,       \* the response of the last outfit-generation call
    uc,         \* a UsageCount value held by a caller of the ledger
    ucPrev,     \* the UsageCount the last ledger operation was applied to
    ucArg,      \* the raw (current, maximum) input of the last ledger operation
    ucOp,       \* the last ledger operation
    verdict,    \* the last duplicate or similarity check: its inputs and result
    upload,     \* the last upload request: its files and its response
    customizedOutfits \* the client's customizedOutfits: per outfit index, the edited
                \* item list as <<list>>, or <<>> while the outfit is not edited

vars == <<items, nextItemId, outfits, reqs, resp, uc, ucPrev, ucArg, ucOp, verdict, upload,
          customizedOutfits>>

storeVars == <<items, nextItemId, outfits>>
ledgerVars == <<uc, ucPrev, ucArg, ucOp>>
dupVars == <<verdict, upload>>
clientVars == <<customizedOutfits>>

Min(a, b) == IF a < b THEN a ELSE b
Max(a, b) == IF a > b THEN a ELSE b

(***************************************************************************)
(* JavaScript strings and numbers.  A string is a TLA+ string; a number    *)
(* that may be fractional (a similarity in percent) is the exact fraction  *)
(* num/den in lowest terms.                                                *)
(***************************************************************************)
\* str[i - 1], the character at the 1-based position i
charAt(str, i) == SubSeq(str, i, i)

\* String.prototype.toLowerCase on one character
lowerCaseLetter(ch) ==
    CASE ch = "A" -> "a" [] ch = "B" -> "b" [] ch = "C" -> "c" [] ch = "D" -> "d"
      [] ch = "E" -> "e" [] ch = "F" -> "f" [] ch = "G" -> "g" [] ch = "H" -> "h"
      [] ch = "I" -> "i" [] ch = "J" -> "j" [] ch = "K" -> "k" [] ch = "L" -> "l"
      [] ch = "M" -> "m" [] ch = "N" -> "n" [] ch = "O" -> "o" [] ch = "P" -> "p"
      [] ch = "Q" -> "q" [] ch = "R" -> "r" [] ch = "S" -> "s" [] ch = "T" -> "t"
      [] ch = "U" -> "u" [] ch = "V" -> "v" [] ch = "W" -> "w" [] ch = "X" -> "x"
      [] ch = "Y" -> "y" [] ch = "Z" -> "z" [] OTHER -> ch

\* String.prototype.toLowerCase, character by character
RECURSIVE lowerCased(_)
lowerCased(str) ==
    IF Len(str) = 0 THEN ""
    ELSE lowerCaseLetter(charAt(str, 1)) \o lowerCased(Tail(str))

\* String.prototype.toLowerCase: the names and colors of the garments by table, any
\* other string character by character
toLowerCase(str) ==
    CASE str = "Navy Cotton T-Shirt"     -> "navy cotton t-shirt"
      [] str = "Dark Blue Denim Jeans"   -> "dark blue denim jeans"
      [] str = "Black Leather Jacket"    -> "black leather jacket"
      [] str = "White Button-Down Shirt" -> "white button-down shirt"
      [] str = "Brown Leather Boots"     -> "brown leather boots"
      [] str = "Gray Wool Sweater"       -> "gray wool sweater"
      [] str = "Beige Chinos"            -> "beige chinos"
      [] str = "Brown Leather Belt"      -> "brown leather belt"
      [] str = "Gray Wool Socks"         -> "gray wool socks"
      [] str = "Beige"                   -> "beige"
      [] OTHER -> lowerCased(str)

\* String.prototype.trim (the white space of the inputs is the blank)
RECURSIVE trimStart(_)
trimStart(str) ==
    IF Len(str) > 0 /\ charAt(str, 1) = " " THEN trimStart(Tail(str)) ELSE str

RECURSIVE trimEnd(_)
trimEnd(str) ==
    IF Len(str) > 0 /\ charAt(str, Len(str)) = " "
    THEN trimEnd(SubSeq(str, 1, Len(str) - 1)) ELSE str

trim(str) == trimEnd(trimStart(str))

\* String.prototype.split(' '): the words between blanks, empty words included
RECURSIVE split(_)
split(str) ==
    LET blanks == {i \in 1..Len(str) : charAt(str, i) = " "}
        first == CHOOSE i \in blanks : \A j \in blanks : i <= j
    IN  IF blanks = {} THEN <<str>>
        ELSE <<SubSeq(str, 1, first - 1)>> \o split(SubSeq(str, first + 1, Len(str)))

\* the characters [a-z0-9]
AlphanumericChars ==
    {"a", "b", "c", "d", "e", "f", "g", "h", "i", "j", "k", "l", "m", "n", "o", "p", "q",
     "r", "s", "t", "u", "v", "w", "x", "y", "z",
     "0", "1", "2", "3", "4", "5", "6", "7", "8", "9"}

\* String.prototype.replace(/[^a-z0-9]/g, '')
RECURSIVE keepAlphanumeric(_)
keepAlphanumeric(str) ==
    IF Len(str) = 0 THEN ""
    ELSE (IF charAt(str, 1) \in AlphanumericChars THEN charAt(str, 1) ELSE "")
         \o keepAlphanumeric(Tail(str))

\* '0'.repeat(n)
RECURSIVE zeros(_)
zeros(n) ==
    IF n = 0 THEN ""
    ELSE IF n % 2 = 1 THEN "0" \o zeros(n - 1)
    ELSE LET half == zeros(n \div 2) IN half \o half

\* String.prototype.padStart(targetLength, '0')
padStart(str, targetLength) ==
    IF Len(str) >= targetLength THEN str ELSE zeros(targetLength - Len(str)) \o str

RECURSIVE gcd(_, _)
gcd(a, b) == IF b = 0 THEN a ELSE gcd(b, a % b)

\* the number num/den, for den > 0
fraction(num, den) ==
    LET g == gcd(IF num < 0 THEN 0 - num ELSE num, den)
    IN  [num |-> num \div g, den |-> den \div g]

\* an integer as a number
number(n) == [num |-> n, den |-> 1]

\* Number.prototype.toFixed(1) of a number x >= 0: the nearest tenth, the larger of
\* two that are equally near
toFixed1(x) ==
    LET tenths == (20 * x.num + x.den) \div (2 * x.den)
    IN  ToString(tenths \div 10) \o "." \o ToString(tenths % 10)

\* x >= n and x <= n, for a number x and an integer n
atLeast(x, n) == x.num >= n * x.den
atMost(x, n) == x.num <= n * x.den

(***************************************************************************)
(* Bounds of the model.                                                    *)
(***************************************************************************)
\* ledger inputs range over -MaxMagnitude..MaxMagnitude
MaxMagnitude == 4
\* the store holds at most MaxStoreItems item ids
MaxStoreItems == 3
\* the constructor's sample items present at the start (of the six it seeds)
SeedCount == 2
\* usage values written by clients range over -UsageSlack..MAX_USAGE_COUNT+UsageSlack
UsageSlack == 1
\* a wardrobe handed to outfit generation holds at most MaxWardrobe items
MaxWardrobe == 4

(***************************************************************************)
(* Usage ledger (shared usageUtils).                                       *)
(***************************************************************************)
MAX_USAGE_COUNT == 3

\* createUsageCount with the upper clamp (Math.min) left out
createUsageCountNoUpperClamp(current, maximum) ==
    LET clampedCurrent == Max(0, current)
    IN  [current   |-> clampedCurrent,
         maximum   |-> maximum,
         display   |-> <<clampedCurrent, maximum>>,
         isAtLimit |-> clampedCurrent >= maximum,
         canUse    |-> clampedCurrent < maximum]

\* display models the string `${clampedCurrent}/${maximum} uses` by its two numbers
createUsageCount(current, maximum) ==
    LET clampedCurrent == Max(0, Min(current, maximum))
    IN  [current   |-> clampedCurrent,
         maximum   |-> maximum,
         display   |-> <<clampedCurrent, maximum>>,
         isAtLimit |-> clampedCurrent >= maximum,
         canUse    |-> clampedCurrent < maximum]

\* The inputs of normalizeUsageCount, by the branch of the code that takes them:
\*   "object"     a UsageCount-like object {current, maximum}
\*   "number"     a number
\*   "usesString" a string holding "<current>/<maximum> uses" (digits only)
\*   "numString"  a string parseInt reads as the number current
\*   "other"      a string parseInt reads as NaN
normalizeUsageCount(usageInput) ==
    CASE usageInput.kind = "object" ->
            createUsageCount(usageInput.current, usageInput.maximum)
      [] usageInput.kind = "number" ->
            createUsageCount(usageInput.current, MAX_USAGE_COUNT)
      [] usageInput.kind = "usesString" ->
            createUsageCount(usageInput.current, usageInput.maximum)
      [] usageInput.kind = "numString" ->
            createUsageCount(usageInput.current, MAX_USAGE_COUNT)
      [] OTHER -> createUsageCount(0, MAX_USAGE_COUNT)

\* incrementUsage without the isAtLimit test and without createUsageCount's clamp
incrementUsageUnclamped(usageCount) ==
    [current   |-> usageCount.current + 1,
     maximum   |-> usageCount.maximum,
     display   |-> <<usageCount.current + 1, usageCount.maximum>>,
     isAtLimit |-> usageCount.current + 1 >= usageCount.maximum,
     canUse    |-> usageCount.current + 1 < usageCount.maximum]

incrementUsage(usageCount) ==
    IF usageCount.isAtLimit
    THEN usageCount
    ELSE createUsageCount(usageCount.current + 1, usageCount.maximum)

resetUsage(usageCount) == createUsageCount(0, usageCount.maximum)

LedgerInts == (0 - MaxMagnitude)..MaxMagnitude

NormalizeInputs ==
    [kind : {"object"}, current : LedgerInts, maximum : LedgerInts]
    \cup [kind : {"number", "numString"}, current : LedgerInts, maximum : {MAX_USAGE_COUNT}]
    \cup [kind : {"usesString"}, current : 0..MaxMagnitude, maximum : 0..MaxMagnitude]
    \cup [kind : {"other"}, current : {0}, maximum : {MAX_USAGE_COUNT}]

LedgerCreate ==
    \E current \in LedgerInts, maximum \in LedgerInts :
        /\ uc' = createUsageCount(current, maximum)
        /\ ucPrev' = uc
        /\ ucArg' = [current |-> current, maximum |-> maximum]
        /\ ucOp' = "create"
        /\ UNCHANGED <<storeVars, reqs, resp, dupVars, clientVars>>

LedgerNormalize ==
    \E usageInput \in NormalizeInputs :
        /\ uc' = normalizeUsageCount(usageInput)
        /\ ucPrev' = uc
        /\ ucArg' = [current |-> usageInput.current, maximum |-> usageInput.maximum]
        /\ ucOp' = "normalize"
        /\ UNCHANGED <<storeVars, reqs, resp, dupVars, clientVars>>

LedgerIncrement ==
    /\ uc' = incrementUsage(uc)
    /\ ucPrev' = uc
    /\ ucArg' = [current |-> uc.current, maximum |-> uc.maximum]
    /\ ucOp' = "increment"
    /\ UNCHANGED <<storeVars, reqs, resp, dupVars, clientVars>>

LedgerReset ==
    /\ uc' = resetUsage(uc)
    /\ ucPrev' = uc
    /\ ucArg' = [current |-> uc.current, maximum |-> uc.maximum]
    /\ ucOp' = "reset"
    /\ UNCHANGED <<storeVars, reqs, resp, dupVars, clientVars>>

(***************************************************************************)
(* The item store (MemStorage) and the wardrobe routes.                    *)
(***************************************************************************)
\* a deleted or never created id
NoItem == [absent |-> TRUE]

NoRequests == [r \in {} |-> 0]

\* no generation call has been answered yet
NoResponse == [path |-> "none", kind |-> "none", outfits |-> <<>>,
               rules |-> [occasion |-> "none", temperature |-> 0, timeOfDay |-> "none"],
               maxResults |-> 0, missing |-> <<>>, reason |-> "none"]

\* no duplicate or similarity check has been made yet
NoVerdict == [op |-> "none"]

\* no upload request has been answered yet
NoUpload == [route |-> "none"]

\* useState<Record<number, ClothingItem[]>>({}): no outfit is edited
NoCustomizations == [outfitIndex \in 1..3 |-> <<>>]

\* the demo user every route acts for (storage.getClothingItemsByUser(1), userId: 1)
DEMO_USER_ID == 1

\* The sample items the MemStorage constructor seeds, in order (name, type, color,
\* usageCount, imageHash; imageUrl is the photo's name in the URL).
sampleItems ==
    << [name |-> "Navy Cotton T-Shirt",     type |-> "top",       color |-> "navy blue", usageCount |-> 2,
        imageHash |-> "hash_navy_tshirt",  imageUrl |-> "photo-1521572163474-6864f9cf17ab"],
       [name |-> "Dark Blue Denim Jeans",   type |-> "bottom",    color |-> "dark blue", usageCount |-> 1,
        imageHash |-> "hash_dark_jeans",   imageUrl |-> "photo-1542272604-787c3835535d"],
       [name |-> "Black Leather Jacket",    type |-> "outerwear", color |-> "black",     usageCount |-> 0,
        imageHash |-> "hash_black_jacket", imageUrl |-> "photo-1551028719-00167b16eac5"],
       [name |-> "White Button-Down Shirt", type |-> "top",       color |-> "white",     usageCount |-> 3,
        imageHash |-> "hash_white_shirt",  imageUrl |-> "photo-1596755094514-f87e34085b2c"],
       [name |-> "Brown Leather Boots",     type |-> "shoes",     color |-> "brown",     usageCount |-> 1,
        imageHash |-> "hash_brown_boots",  imageUrl |-> "photo-1549298916-b41d501d3772"],
       [name |-> "Gray Wool Sweater",       type |-> "top",       color |-> "gray",      usageCount |-> 2,
        imageHash |-> "hash_gray_sweater", imageUrl |-> "photo-1434389677669-e08b4cac3105"] >>

\* MemStorage.createClothingItem: the next id, usageCount defaulting to 0
\* (insertItem.usageCount ?? 0; an insertItem without the field has none)
createClothingItem(store, id, insertItem) ==
    LET item == [id         |-> id,
                 userId     |-> insertItem.userId,
                 name       |-> insertItem.name,
                 type       |-> insertItem.type,
                 color      |-> insertItem.color,
                 imageUrl   |-> insertItem.imageUrl,
                 imageHash  |-> insertItem.imageHash,
                 usageCount |-> IF "usageCount" \in DOMAIN insertItem
                                THEN insertItem.usageCount ELSE 0]
    IN  [i \in (DOMAIN store) \cup {id} |-> IF i = id THEN item ELSE store[i]]

\* MemStorage.getClothingItem
getClothingItem(store, id) ==
    IF id \in DOMAIN store THEN store[id] ELSE NoItem

\* MemStorage.updateClothingItemUsage: the value is stored as given
updateClothingItemUsage(store, id, usageCount) ==
    IF getClothingItem(store, id) # NoItem
    THEN [store EXCEPT ![id].usageCount = usageCount]
    ELSE store

\* MemStorage.deleteClothingItem (the id is never reused)
deleteClothingItem(store, id) ==
    IF id \in DOMAIN store THEN [store EXCEPT ![id] = NoItem] ELSE store

\* MemStorage.updateClothingItem: {...item, ...updates}; the caller sees "Item not
\* found" thrown for a missing id, and the store is left alone
updateClothingItem(store, id, updates) ==
    IF getClothingItem(store, id) = NoItem
    THEN store
    ELSE [store EXCEPT ![id] =
            [f \in DOMAIN store[id] |->
                IF f \in DOMAIN updates THEN updates[f] ELSE store[id][f]]]

\* MemStorage.getClothingItemsByUser: the user's items in insertion (id) order
getClothingItemsByUser(store, userId) ==
    LET present(i) == store[i] # NoItem /\ store[i].userId = userId
        RECURSIVE upTo(_)
        upTo(n) == IF n = 0 THEN <<>>
                   ELSE IF n \in DOMAIN store /\ present(n)
                        THEN Append(upTo(n - 1), store[n])
                        ELSE upTo(n - 1)
    IN  upTo(Len(store))

\* the store after the constructor has inserted the first n sample items
seededStore(n) ==
    [i \in 1..n |-> [id |-> i, userId |-> DEMO_USER_ID, name |-> sampleItems[i].name,
                     type |-> sampleItems[i].type, color |-> sampleItems[i].color,
                     imageUrl |-> sampleItems[i].imageUrl,
                     imageHash |-> sampleItems[i].imageHash,
                     usageCount |-> sampleItems[i].usageCount]]

(***************************************************************************)
(* Fingerprints and duplicate detection (shared/utils and the helpers of   *)
(* server/routes).                                                         *)
(***************************************************************************)
\* the characters [a-fA-F0-9]
HexChars ==
    {"0", "1", "2", "3", "4", "5", "6", "7", "8", "9",
     "a", "b", "c", "d", "e", "f", "A", "B", "C", "D", "E", "F"}

\* /^[a-fA-F0-9]+$/.test(hash)
isValidHex(hash) ==
    Len(hash) > 0 /\ \A i \in 1..Len(hash) : charAt(hash, i) \in HexChars

\* the four binary digits of a hexadecimal digit
hexDigitBits(ch) ==
    LET c == lowerCaseLetter(ch)
    IN  CASE c = "0" -> "0000" [] c = "1" -> "0001" [] c = "2" -> "0010" [] c = "3" -> "0011"
          [] c = "4" -> "0100" [] c = "5" -> "0101" [] c = "6" -> "0110" [] c = "7" -> "0111"
          [] c = "8" -> "1000" [] c = "9" -> "1001" [] c = "a" -> "1010" [] c = "b" -> "1011"
          [] c = "c" -> "1100" [] c = "d" -> "1101" [] c = "e" -> "1110" [] c = "f" -> "1111"

\* the binary digits of a string of hexadecimal digits, four for each
RECURSIVE allBits(_)
allBits(hash) ==
    IF Len(hash) = 0 THEN ""
    ELSE IF Len(hash) = 1 THEN hexDigitBits(hash)
    ELSE allBits(SubSeq(hash, 1, Len(hash) \div 2))
         \o allBits(SubSeq(hash, Len(hash) \div 2 + 1, Len(hash)))

RECURSIVE stripLeadingZeros(_)
stripLeadingZeros(bits) ==
    IF Len(bits) > 1 /\ charAt(bits, 1) = "0" THEN stripLeadingZeros(Tail(bits)) ELSE bits

\* BigInt('0x' + hash).toString(2), for a hash of hexadecimal digits
toBinary(hash) == stripLeadingZeros(allBits(hash))

\* the similarity for a number of differing binary digits, without Math.max(0, ...)
hammingSimilarityUnclamped(differences) == fraction(25600 - 100 * differences, 256)

\* Math.max(0, 100 - (differences / 256) * 100)
hammingSimilarity(differences) ==
    IF 25600 - 100 * differences < 0
    THEN number(0)
    ELSE fraction(25600 - 100 * differences, 256)

\* the running minimum of a sequence of numbers: element k is the least of seq[1..k]
RECURSIVE prefixMin(_)
prefixMin(seq) ==
    IF Len(seq) <= 1 THEN seq
    ELSE LET left == prefixMin(SubSeq(seq, 1, Len(seq) \div 2))
             right == prefixMin(SubSeq(seq, Len(seq) \div 2 + 1, Len(seq)))
         IN  left \o [k \in 1..Len(right) |-> Min(left[Len(left)], right[k])]

\* row j of the matrix of levenshteinDistance from row j - 1; position i + 1 holds
\* matrix[j][i].  With t[i] = min(matrix[j-1][i] + 1, matrix[j-1][i-1] + indicator)
\* and t[0] = j, matrix[j][i] = min(matrix[j][i-1] + 1, t[i]) is the least of
\* t[k] + (i - k) over k <= i.
levenshteinRow(prev, str1, str2, j) ==
    LET t == [p \in 1..(Len(str1) + 1) |->
                IF p = 1 THEN j
                ELSE Min(prev[p] + 1,
                         prev[p - 1] + (IF charAt(str1, p - 1) = charAt(str2, j)
                                        THEN 0 ELSE 1))]
        least == prefixMin([p \in 1..(Len(str1) + 1) |-> t[p] - p])
    IN  SubSeq([p \in 1..(Len(str1) + 1) |-> least[p] + p], 1, Len(str1) + 1)

RECURSIVE levenshteinRows(_, _, _, _)
levenshteinRows(prev, str1, str2, j) ==
    IF j > Len(str2) THEN prev
    ELSE LET row == levenshteinRow(prev, str1, str2, j)
         IN  IF Len(row) = Len(prev) THEN levenshteinRows(row, str1, str2, j + 1) ELSE row

\* levenshteinDistance: matrix[str2.length][str1.length]
levenshteinDistance(str1, str2) ==
    levenshteinRows([p \in 1..(Len(str1) + 1) |-> p - 1], str1, str2, 1)[Len(str1) + 1]

\* calculateStringSimilarity: Math.max(0, 100 - (editDistance / longer.length) * 100)
calculateStringSimilarity(str1, str2) ==
    LET longer == IF Len(str1) > Len(str2) THEN str1 ELSE str2
        shorter == IF Len(str1) > Len(str2) THEN str2 ELSE str1
        editDistance == levenshteinDistance(longer, shorter)
    IN  IF Len(longer) = 0 THEN number(100)
        ELSE IF editDistance > Len(longer) THEN number(0)
        ELSE fraction(100 * (Len(longer) - editDistance), Len(longer))

\* calculateHashSimilarity of shared/utils, in percent.  BigInt() is reached with
\* hexadecimal digits only and so never throws; the catch block is not entered.
calculateHashSimilarity(hash1, hash2) ==
    LET bin1 == padStart(toBinary(hash1), 256)
        bin2 == padStart(toBinary(hash2), 256)
        differences == Cardinality({i \in 1..Min(Len(bin1), Len(bin2)) :
                                       charAt(bin1, i) # charAt(bin2, i)})
    IN  IF hash1 = "" \/ hash2 = "" THEN number(0)
        ELSE IF hash1 = hash2 THEN number(100)
        ELSE IF ~isValidHex(hash1) \/ ~isValidHex(hash2)
        THEN calculateStringSimilarity(hash1, hash2)
        ELSE hammingSimilarity(differences)

\* normalizeFilename
normalizeFilename(filename) == trim(keepAlphanumeric(toLowerCase(filename)))

\* the least element of a set of positions, 0 for the empty set (Array.prototype.find
\* and the for-of loops return at the first element that passes)
first(positions) ==
    IF positions = {} THEN 0 ELSE CHOOSE k \in positions : \A j \in positions : k <= j

\* strategy 1: item.hash === newHash && item.hash
exactHashMatches(item, newHash) == item.hash = newHash /\ item.hash # ""

\* strategy 2: item.hash is set and calculateHashSimilarity(newHash, item.hash) >= 95
nearHashMatches(item, newHash) ==
    item.hash # "" /\ atLeast(calculateHashSimilarity(newHash, item.hash), 95)

\* strategy 3: the names equal after toLowerCase().trim(), the types equal as they
\* are, the colors equal after toLowerCase()
metadataMatches(item, newName, newType, newColor) ==
    /\ trim(toLowerCase(item.name)) = trim(toLowerCase(newName))
    /\ item.type = newType
    /\ toLowerCase(item.color) = toLowerCase(newColor)

filenameSimilarity(item, filename) ==
    calculateStringSimilarity(normalizeFilename(filename), normalizeFilename(item.name))

\* strategy 4: item.name is set, filenameSimilarity >= 85 and the types are equal
filenameMatches(item, filename, newType) ==
    /\ item.name # ""
    /\ atLeast(filenameSimilarity(item, filename), 85)
    /\ item.type = newType

\* nameWords.filter(word => word.length > 3 && existingWords.includes(word)).length
commonWords(newName, existingName) ==
    LET nameWords == split(toLowerCase(newName))
        existingWords == split(toLowerCase(existingName))
    IN  Cardinality({k \in 1..Len(nameWords) :
            /\ Len(nameWords[k]) > 3
            /\ \E e \in 1..Len(existingWords) : existingWords[e] = nameWords[k]})

\* strategy 5: same type, same color after toLowerCase(), commonWords.length >= 2
semanticMatches(item, newName, newType, newColor) ==
    /\ item.type = newType
    /\ toLowerCase(item.color) = toLowerCase(newColor)
    /\ commonWords(newName, item.name) >= 2

\* the verdict of strategy n (1..5) for the matched item; 0 is the verdict for no
\* match, which has neither a matched item nor a reason
duplicateVerdict(n, item, newHash, filename) ==
    CASE n = 1 -> [isDuplicate |-> TRUE, similarity |-> number(100), matchedItem |-> item,
                   reason |-> "Identical image detected (exact hash match)"]
      [] n = 2 -> [isDuplicate |-> TRUE,
                   similarity |-> calculateHashSimilarity(newHash, item.hash),
                   matchedItem |-> item,
                   reason |-> "Very similar image detected ("
                              \o toFixed1(calculateHashSimilarity(newHash, item.hash))
                              \o "% similarity)"]
      [] n = 3 -> [isDuplicate |-> TRUE, similarity |-> number(90), matchedItem |-> item,
                   reason |-> "Identical item details (name, type, color)"]
      [] n = 4 -> [isDuplicate |-> TRUE, similarity |-> filenameSimilarity(item, filename),
                   matchedItem |-> item,
                   reason |-> "Similar filename and type detected ("
                              \o toFixed1(filenameSimilarity(item, filename))
                              \o "% filename similarity)"]
      [] n = 5 -> [isDuplicate |-> TRUE, similarity |-> number(80), matchedItem |-> item,
                   reason |-> "Similar item with matching type and color detected"]
      [] OTHER -> [isDuplicate |-> FALSE, similarity |-> number(0), matchedItem |-> NoItem,
                   reason |-> "none"]

\* whether strategy n matches the item; the filename strategy runs only with a filename
strategyMatches(n, item, newHash, newName, newType, newColor, filename) ==
    CASE n = 1 -> exactHashMatches(item, newHash)
      [] n = 2 -> nearHashMatches(item, newHash)
      [] n = 3 -> metadataMatches(item, newName, newType, newColor)
      [] n = 4 -> filename # "" /\ filenameMatches(item, filename, newType)
      [] n = 5 -> semanticMatches(item, newName, newType, newColor)

\* detectDuplicate with the loops exchanged: the candidates are taken in order and
\* each is tried against all five strategies
detectDuplicateCandidateFirst(newHash, newName, newType, newColor, existingItems, filename) ==
    LET hit(k) == {n \in 1..5 : strategyMatches(n, existingItems[k], newHash, newName,
                                                 newType, newColor, filename)}
        k == first({j \in DOMAIN existingItems : hit(j) # {}})
    IN  IF k = 0 THEN duplicateVerdict(0, NoItem, newHash, filename)
        ELSE duplicateVerdict(first(hit(k)), existingItems[k], newHash, filename)

\* detectDuplicate: the strategies in order, each over the whole of existingItems; a
\* filename that is not provided is the empty string
detectDuplicate(newHash, newName, newType, newColor, existingItems, filename) ==
    LET found(n) == first({k \in DOMAIN existingItems :
                        strategyMatches(n, existingItems[k], newHash, newName,
                                        newType, newColor, filename)})
        n == first({m \in 1..5 : found(m) # 0})
    IN  IF n = 0 THEN duplicateVerdict(0, NoItem, newHash, filename)
        ELSE duplicateVerdict(n, existingItems[found(n)], newHash, filename)

\* calculateHashSimilarity of server/routes: the share of equal characters, 0..1
calculateHashSimilarityOfRoutes(hash1, hash2) ==
    IF hash1 = "" \/ hash2 = "" \/ Len(hash1) # Len(hash2)
    THEN number(0)
    ELSE fraction(Cardinality({i \in 1..Len(hash1) : charAt(hash1, i) = charAt(hash2, i)}),
                  Len(hash1))

\* checkForDuplicates: the first stored item whose hash shares at least
\* SIMILARITY_THRESHOLD = 0.85 of its characters with newHash; similarity is
\* Math.round(similarity * 100)
checkForDuplicates(store, newHash, userId) ==
    LET userItems == getClothingItemsByUser(store, userId)
        similarity(k) == calculateHashSimilarityOfRoutes(newHash, userItems[k].imageHash)
        k == first({j \in DOMAIN userItems :
                       /\ userItems[j].imageHash # ""
                       /\ similarity(j).num * 100 >= 85 * similarity(j).den})
    IN  IF k = 0 THEN [isDuplicate |-> FALSE]
        ELSE [isDuplicate |-> TRUE, similarItem |-> userItems[k],
              similarity |-> (200 * similarity(k).num + similarity(k).den)
                             \div (2 * similarity(k).den)]

(***************************************************************************)
(* Image bytes, digests and fingerprints.  An uploaded file is its bytes:  *)
(* "A" and "B" are images the decoder accepts, "C" is not an image.  The   *)
(* output of the image library for a buffer is the named pixel data; the   *)
(* digests are those of the strings in the tables.                         *)
(***************************************************************************)
Buffers == {"A", "B", "C"}

\* whether sharp(buffer) decodes the bytes
decodable(buffer) == buffer \in {"A", "B"}

\* String.prototype.sliceString(start, end)
sliceString(str, start, end) == SubSeq(str, start + 1, Min(end, Len(str)))

\* String.prototype.includes
includesString(str, searchString) ==
    \E i \in 1..(Len(str) - Len(searchString) + 1) :
        SubSeq(str, i, i + Len(searchString) - 1) = searchString

\* buffer.toString('base64')
toBase64(buffer) ==
    CASE buffer = "A" -> "QQ==" [] buffer = "B" -> "Qg==" [] buffer = "C" -> "Qw=="

\* crypto.createHash('md5').update(data).digest('hex')
md5(data) ==
    CASE data = "A" -> "7fc56270e7a70fa81a5935b72eacbe29"
      [] data = "B" -> "9d5ed678fe57bcca610140957afab571"
      [] data = "C" -> "0d61f8370cad1d412f80b84d143e1257"
      [] data = "gray8x8(A)" -> "9e2a3e7b6851f3e52197084a129ffc2a"
      [] data = "color16x16(A)" -> "8ac0fe95228e85793b67180bb8d5d7b1"
      [] data = "edges32x32(A)" -> "9d13e58a7e94cb6733c2136a7edbb75f"
      [] data = "gray8x8(B)" -> "04a3716acb4b6fffe197ef57eda43f16"
      [] data = "color16x16(B)" -> "165c2736163d05cb2b5b636cf8a04bc9"
      [] data = "edges32x32(B)" -> "620eadb37c76e0e24b7e2d26b603463c"
      [] data = "1_640_480" -> "43c2d7b7c56dc061244614e81decf394"
      [] data = "Gray Wool Socks_top_gray_1700000000000_0" -> "8c43098382c59ac907152eadde7533bd"
      [] data = "Gray Wool Socks_top_gray_1700000000000_1" -> "62e6494be38e17ae50ec5b80cf84abfe"
      [] data = "Gray Wool Socks_top_gray_1700000000001_0" -> "ea507c86c8d601144b4fe5737decad1a"
      [] data = "Gray Wool Socks_top_gray_1700000000001_1" -> "61e2c1ba733f6c707db08e178fbabce9"
      [] data = "Navy Tee_top_navy_1700000000000_0" -> "69e7b47848dbc384de7f99c8eb8b968a"
      [] data = "Navy Tee_top_navy_1700000000000_1" -> "14e291072cf693e63e3d77709aca1725"
      [] data = "Navy Tee_top_navy_1700000000001_0" -> "02925e48f4edc7f2fe19644879df273a"
      [] data = "Navy Tee_top_navy_1700000000001_1" -> "c9f96c43a9a8d6839065058bec63eae8"
      [] data = "Gray Wool Socks_top_gray_1700000000000_2" -> "a8976796eac7016c5916e450f73443d7"
      [] data = "Gray Wool Socks_top_gray_1700000000001_2" -> "c55b6054647b9c3d08330a378f4927c0"
      [] data = "Navy Tee_top_navy_1700000000000_2" -> "26035ddb67557dd3d09d036e4b55f7c1"
      [] data = "Navy Tee_top_navy_1700000000001_2" -> "0646ebc3d727bfd30bd71035e74720f1"

\* crypto.createHash('sha256').update(data).digest('hex')
sha256(data) ==
    CASE data = "pixels256x256(A)"
           -> "36ec92601d93673657055029ee696711bed85de5548d87b87d88f267d707ce34"
      [] data = "pixels256x256(B)"
           -> "21852d70e26f2b65119e47716261e951bbe7e0478846950f4928848bee286c44"
      [] data = "9e2a3e7b8ac0fe959d13e58a43c2d7b7"
           -> "f4b85e39236a61d2dc6e8e0bdb4764277662331d8cc0905098129e7139403879"
      [] data = "04a3716a165c2736620eadb343c2d7b7"
           -> "fc3dcf805a88b6710f5af5b79828e267ac4d1f1fce34315a06bb41e997890e9d"
      [] data = "Qw==17000000000000.25"
           -> "a77638c976b5eb880af32c25b2fd17fa74a696cad097d6ade8b36ba9097ae9ba"
      [] data = "Qw==17000000000010.75"
           -> "78021daa1cd7f900a20eb7edc2a7f17a8f07271bb6788a361f9b9e76ba629117"

\* the values of Date.now().toString() and Math.random().toString() at a call
Clock == {"1700000000000", "1700000000001"}
Salts == {[timestamp |-> "1700000000000", random |-> "0.25"],
          [timestamp |-> "1700000000001", random |-> "0.75"]}

\* generateImageHash with the fallback of the second definition, which reads the
\* clock; the clock advances with the ids the store has given out
generateImageHashAtClock(buffer) ==
    IF decodable(buffer)
    THEN sliceString(sha256("pixels256x256(" \o buffer \o ")"), 0, 32)
    ELSE sha256(sliceString(toBase64(buffer), 0, 100)
                \o (IF nextItemId % 2 = 1 THEN "17000000000000.25"
                    ELSE "17000000000010.75"))

\* generateImageHash, first definition: 32 digits of the digest of the preprocessed
\* pixels, and for bytes that do not decode 16 digits of the digest of the bytes
generateImageHash(buffer) ==
    IF decodable(buffer)
    THEN sliceString(sha256("pixels256x256(" \o buffer \o ")"), 0, 32)
    ELSE sliceString(md5(buffer), 0, 16)

\* generateImageHash, second definition: the digest of four joined components, and
\* for bytes that do not decode the digest of the bytes, the clock and a random number
generateImageHashSecond(buffer, salt) ==
    IF decodable(buffer)
    THEN sha256(sliceString(md5("gray8x8(" \o buffer \o ")"), 0, 8)
                \o sliceString(md5("color16x16(" \o buffer \o ")"), 0, 8)
                \o sliceString(md5("edges32x32(" \o buffer \o ")"), 0, 8)
                \o sliceString(md5("1_640_480"), 0, 8))
    ELSE sha256(sliceString(toBase64(buffer), 0, 100) \o salt.timestamp \o salt.random)

\* `data:image/jpeg;base64,${file.buffer.toString('base64')}`
dataUrl(buffer) == "data:image/jpeg;base64," \o toBase64(buffer)

\* the data URL of sharp(file.buffer).resize(400, 400).jpeg().toBuffer()
resizedDataUrl(buffer) ==
    "data:image/jpeg;base64,"
    \o (CASE buffer = "A" -> "YQ==" [] buffer = "B" -> "Yg==")

\* MemStorage.getClothingItemByHash
getClothingItemByHash(store, userId, hash) ==
    LET k == first({j \in DOMAIN store :
                       store[j].userId = userId /\ store[j].imageHash = hash})
    IN  IF k = 0 THEN NoItem ELSE store[k]

(***************************************************************************)
(* shared/categoryRules                                                    *)
(***************************************************************************)
\* the rules in order; a rule without a subcategory has "undefined", and conditions
\* names the rule's condition function
categoryRules ==
    <<[keywords |-> <<"sock", "socks">>, primaryCategory |-> "accessories",
       subcategory |-> "socks", conditions |-> "none"],
      [keywords |-> <<"cardigan">>, primaryCategory |-> "top",
       subcategory |-> "optional_outerwear", conditions |-> "cardigan"],
      [keywords |-> <<"blazer", "sport coat">>, primaryCategory |-> "outerwear",
       subcategory |-> "business", conditions |-> "none"],
      [keywords |-> <<"jacket">>, primaryCategory |-> "outerwear",
       subcategory |-> "undefined", conditions |-> "jacket"],
      [keywords |-> <<"hoodie", "sweatshirt">>, primaryCategory |-> "top",
       subcategory |-> "casual", conditions |-> "hoodie"]>>

\* indicators.some(indicator => nameLower.includes(indicator))
someIncluded(indicators, nameLower) ==
    \E k \in DOMAIN indicators : includesString(nameLower, indicators[k])

\* rule.conditions(name, color), for a rule that has conditions
conditionsHold(rule, name, color) ==
    LET nameLower == toLowerCase(name)
    IN  CASE rule.conditions = "cardigan" ->
               \/ ~someIncluded(<<"wool", "thick", "winter", "heavy", "chunky",
                                  "cable knit">>, nameLower)
               \/ someIncluded(<<"cotton", "light", "summer", "thin", "fine knit">>,
                               nameLower)
          [] rule.conditions = "jacket" ->
               ~someIncluded(<<"bomber", "denim", "light">>, nameLower)
          [] rule.conditions = "hoodie" ->
               ~someIncluded(<<"fleece", "thermal", "winter">>, nameLower)

\* refineCategory with the cold threshold moved to include 10 degrees
refineCategoryUpTo10(originalType, name, color, temperature) ==
    LET nameLower == toLowerCase(name)
        applies(k) == /\ someIncluded(categoryRules[k].keywords, nameLower)
                      /\ \/ categoryRules[k].conditions = "none"
                         \/ conditionsHold(categoryRules[k], name, color)
        k == first({j \in DOMAIN categoryRules : applies(j)})
    IN  IF k = 0
        THEN [type |-> originalType, subcategory |-> "undefined", confidence |-> 70]
        ELSE IF /\ Len(temperature) = 1
                /\ temperature[1] <= 10
                /\ categoryRules[k].subcategory = "optional_outerwear"
        THEN [type |-> "outerwear", subcategory |-> "winter", confidence |-> 95]
        ELSE [type |-> categoryRules[k].primaryCategory,
              subcategory |-> categoryRules[k].subcategory, confidence |-> 90]

\* refineCategory; temperature is <<>> when the argument is not passed, <<t>> otherwise
refineCategory(originalType, name, color, temperature) ==
    LET nameLower == toLowerCase(name)
        applies(k) ==
            /\ someIncluded(categoryRules[k].keywords, nameLower)
            /\ (categoryRules[k].conditions = "none"
                \/ conditionsHold(categoryRules[k], name, color))
        k == first({j \in DOMAIN categoryRules : applies(j)})
    IN  IF k = 0 THEN [type |-> originalType, subcategory |-> "undefined", confidence |-> 70]
        ELSE IF /\ Len(temperature) = 1
                /\ temperature[1] < 10
                /\ categoryRules[k].subcategory = "optional_outerwear"
        THEN [type |-> "outerwear", subcategory |-> "winter", confidence |-> 95]
        ELSE [type |-> categoryRules[k].primaryCategory,
              subcategory |-> categoryRules[k].subcategory, confidence |-> 90]

(***************************************************************************)
(* The wardrobe routes over the store: upload, PATCH and DELETE            *)
(* /api/wardrobe/:id, and the store's own updateClothingItemUsage.         *)
(***************************************************************************)
UsageInputs == (0 - UsageSlack)..(MAX_USAGE_COUNT + UsageSlack)

\* what an upload can add: the attributes of the first two sample garments, as the
\* analysis of the images "A" and "B"
UploadInputs == {[name |-> sampleItems[i].name, type |-> sampleItems[i].type,
                  color |-> sampleItems[i].color,
                  buffer |-> IF i = 1 THEN "A" ELSE "B"] : i \in 1..2}

\* request bodies of PATCH /api/wardrobe/:id: any subset of the fields, unvalidated
PatchBodies ==
    {[usageCount |-> n] : n \in UsageInputs}
    \cup {[type |-> t] : t \in {"top", "outerwear"}}
    \cup {[type |-> "outerwear", usageCount |-> 0]}
    \cup {[imageHash |-> "ffffffffffffffff", userId |-> 2, id |-> 9]}

\* POST /api/upload, per accepted file (one that checkForDuplicates lets pass):
\* usageCount: createUsageCount().current
UploadItem ==
    \E insertItem \in UploadInputs :
        /\ nextItemId <= MaxStoreItems
        /\ ~checkForDuplicates(items, generateImageHash(insertItem.buffer),
                               DEMO_USER_ID).isDuplicate
        /\ items' = createClothingItem(items, nextItemId,
                [userId |-> DEMO_USER_ID, name |-> insertItem.name,
                 type |-> insertItem.type, color |-> insertItem.color,
                 imageUrl |-> dataUrl(insertItem.buffer),
                 imageHash |-> generateImageHash(insertItem.buffer),
                 usageCount |-> createUsageCount(0, MAX_USAGE_COUNT).current])
        /\ nextItemId' = nextItemId + 1
        /\ UNCHANGED <<outfits, reqs, resp, ledgerVars, dupVars, clientVars>>

\* IStorage.updateClothingItemUsage called with any number
UpdateUsage ==
    \E id \in 1..MaxStoreItems, usageCount \in UsageInputs :
        /\ getClothingItem(items, id) # NoItem
        /\ items' = updateClothingItemUsage(items, id, usageCount)
        /\ UNCHANGED <<nextItemId, outfits, reqs, resp, ledgerVars, dupVars, clientVars>>

\* PATCH /api/wardrobe/:id: updates = req.body, handed to storage.updateClothingItem
PatchWardrobe ==
    \E id \in 1..MaxStoreItems, updates \in PatchBodies :
        /\ items' = updateClothingItem(items, id, updates)
        /\ items' # items
        /\ UNCHANGED <<nextItemId, outfits, reqs, resp, ledgerVars, dupVars, clientVars>>

\* DELETE /api/wardrobe/:id
DeleteWardrobe ==
    \E id \in 1..MaxStoreItems :
        /\ getClothingItem(items, id) # NoItem
        /\ items' = deleteClothingItem(items, id)
        /\ UNCHANGED <<nextItemId, outfits, reqs, resp, ledgerVars, dupVars, clientVars>>

\* the server after construction: the store seeded with sample items
Init ==
    /\ items = seededStore(SeedCount)
    /\ nextItemId = SeedCount + 1
    /\ outfits = <<>>
    /\ reqs = NoRequests
    /\ resp = NoResponse
    /\ uc = createUsageCount(0, MAX_USAGE_COUNT)
    /\ ucPrev = createUsageCount(0, MAX_USAGE_COUNT)
    /\ ucArg = [current |-> 0, maximum |-> MAX_USAGE_COUNT]
    /\ ucOp = "init"
    /\ verdict = NoVerdict
    /\ upload = NoUpload
    /\ customizedOutfits = NoCustomizations

Next ==
    \/ UploadItem
    \/ UpdateUsage
    \/ PatchWardrobe
    \/ DeleteWardrobe

Spec == Init /\ [][Next]_vars

StoredIds == {id \in DOMAIN items : items[id] # NoItem}

\* C3: after any sequence of store operations every stored item has
\* 0 <= usageCount <= MAX_USAGE_COUNT.
C3_UsageWithinBounds ==
    \A id \in StoredIds :
        0 <= items[id].usageCount /\ items[id].usageCount <= MAX_USAGE_COUNT

\* C4: an item is created with usage 0 and, while it is stored, its usage counter
\* never decreases from one state to the next (no step of the store is a reset).
C4_UsageNeverDecreases ==
    [][\A id \in DOMAIN items' :
         IF id \in DOMAIN items /\ items[id] # NoItem
         THEN items'[id] # NoItem => items'[id].usageCount >= items[id].usageCount
         ELSE items'[id] # NoItem => items'[id].usageCount = 0]_vars

\* C25: no update of a stored item changes its imageHash, its id or its userId,
\* whatever body PATCH /api/wardrobe/:id is sent.
C25_FingerprintAndIdentityKept ==
    [][\A id \in DOMAIN items :
         (items[id] # NoItem /\ items'[id] # NoItem) =>
             /\ items'[id].imageHash = items[id].imageHash
             /\ items'[id].id = items[id].id
             /\ items'[id].userId = items[id].userId]_vars

(***************************************************************************)
(* Saving an outfit.  POST /api/outfits validates the item ids and stores  *)
(* the outfit; it never touches a usage counter.  The client's save        *)
(* button posts to /api/save-outfit, the acceptance step that charges one  *)
(* use to every item of the outfit through the ledger and the store.       *)
(* Every await of a handler is a point where another request may run.      *)
(***************************************************************************)
Requests == {"A", "B"}

\* item-id lists of save requests: up to two distinct stored ids, or a missing id
SaveBodies ==
    {<<a>> : a \in 1..(SeedCount + 1)}
    \cup {pair \in (1..SeedCount) \X (1..SeedCount) : pair[1] # pair[2]}

IdleRequest == [route |-> "none", pc |-> "idle", itemIds |-> <<>>, idx |-> 0,
                read |-> NoItem]

\* MemStorage.createOutfit: the next outfit id (currentOutfitId++), item ids as numbers
createOutfit(saved, insertOutfit) ==
    Append(saved, [id |-> Len(saved) + 1, userId |-> insertOutfit.userId,
                   itemIds |-> insertOutfit.itemIds])

\* POST /api/outfits: the body parses; the first item is fetched (await)
PostOutfitsStart(r) ==
    \E itemIds \in SaveBodies :
        /\ reqs[r].pc = "idle"
        /\ reqs' = [reqs EXCEPT ![r] =
                [route |-> "outfits", pc |-> "validate", itemIds |-> itemIds,
                 idx |-> 1, read |-> getClothingItem(items, itemIds[1])]]
        /\ UNCHANGED <<storeVars, resp, ledgerVars, dupVars, clientVars>>

\* POST /api/outfits, after an await: the fetched item is checked; then the next
\* item is fetched, or, after the last one, storage.createOutfit is called
PostOutfitsValidate(r) ==
    LET q == reqs[r]
    IN  /\ q.route = "outfits" /\ q.pc = "validate"
        /\ IF q.read = NoItem \/ q.read.userId # DEMO_USER_ID
           THEN /\ reqs' = [reqs EXCEPT ![r].pc = "rejected"]
                /\ UNCHANGED outfits
           ELSE IF q.idx < Len(q.itemIds)
           THEN /\ reqs' = [reqs EXCEPT ![r].idx = q.idx + 1,
                                        ![r].read = getClothingItem(items, q.itemIds[q.idx + 1])]
                /\ UNCHANGED outfits
           ELSE /\ outfits' = createOutfit(outfits,
                        [userId |-> DEMO_USER_ID, itemIds |-> q.itemIds])
                /\ reqs' = [reqs EXCEPT ![r].pc = "created"]
        /\ UNCHANGED <<items, nextItemId, resp, ledgerVars, dupVars, clientVars>>

\* POST /api/outfits: res.status(201).json(newOutfit)
PostOutfitsRespond(r) ==
    /\ reqs[r].route = "outfits" /\ reqs[r].pc = "created"
    /\ reqs' = [reqs EXCEPT ![r].pc = "done"]
    /\ UNCHANGED <<storeVars, resp, ledgerVars, dupVars, clientVars>>

\* POST /api/save-outfit: the first item is fetched (await)
SaveOutfitStart(r) ==
    \E itemIds \in SaveBodies :
        /\ reqs[r].pc = "idle"
        /\ reqs' = [reqs EXCEPT ![r] =
                [route |-> "save-outfit", pc |-> "charge", itemIds |-> itemIds,
                 idx |-> 1, read |-> getClothingItem(items, itemIds[1])]]
        /\ UNCHANGED <<storeVars, resp, ledgerVars, dupVars, clientVars>>

\* the counter to write back for a counter read earlier: one ledger increment
chargedUsage(usageCount) ==
    incrementUsage(createUsageCount(usageCount, MAX_USAGE_COUNT)).current

\* POST /api/save-outfit, after the read: the incremented counter is written back
\* through the store (await); a missing item is passed over
SaveOutfitWrite(r) ==
    LET q == reqs[r]
    IN  /\ q.route = "save-outfit" /\ q.pc = "charge"
        /\ items' = IF q.read = NoItem THEN items
                     ELSE updateClothingItemUsage(items, q.read.id,
                                                  chargedUsage(q.read.usageCount))
        /\ reqs' = [reqs EXCEPT ![r].pc = "written"]
        /\ UNCHANGED <<nextItemId, outfits, resp, ledgerVars, dupVars, clientVars>>

\* POST /api/save-outfit, after the write: the next item is fetched, or, after the
\* last one, the outfit is stored
SaveOutfitNext(r) ==
    LET q == reqs[r]
    IN  /\ q.route = "save-outfit" /\ q.pc = "written"
        /\ IF q.idx < Len(q.itemIds)
           THEN /\ reqs' = [reqs EXCEPT ![r].pc = "charge", ![r].idx = q.idx + 1,
                                        ![r].read = getClothingItem(items, q.itemIds[q.idx + 1])]
                /\ UNCHANGED outfits
           ELSE /\ outfits' = createOutfit(outfits,
                        [userId |-> DEMO_USER_ID, itemIds |-> q.itemIds])
                /\ reqs' = [reqs EXCEPT ![r].pc = "done"]
        /\ UNCHANGED <<items, nextItemId, resp, ledgerVars, dupVars, clientVars>>

\* two save requests against a store whose counters are within 0..MAX_USAGE_COUNT
InitSave ==
    /\ \E usages \in [1..SeedCount -> 0..MAX_USAGE_COUNT] :
          items = [i \in 1..SeedCount |->
                      [seededStore(SeedCount)[i] EXCEPT !.usageCount = usages[i]]]
    /\ nextItemId = SeedCount + 1
    /\ outfits = <<>>
    /\ reqs = [r \in Requests |-> IdleRequest]
    /\ resp = NoResponse
    /\ uc = createUsageCount(0, MAX_USAGE_COUNT)
    /\ ucPrev = createUsageCount(0, MAX_USAGE_COUNT)
    /\ ucArg = [current |-> 0, maximum |-> MAX_USAGE_COUNT]
    /\ ucOp = "init"
    /\ verdict = NoVerdict
    /\ upload = NoUpload
    /\ customizedOutfits = NoCustomizations

NextSave ==
    \E r \in Requests :
        \/ PostOutfitsStart(r)
        \/ PostOutfitsValidate(r)
        \/ PostOutfitsRespond(r)
        \/ SaveOutfitStart(r)
        \/ SaveOutfitWrite(r)
        \/ SaveOutfitNext(r)

SpecSave == InitSave /\ [][NextSave]_vars

\* C2: however two save-outfit requests sharing an item interleave their reads,
\* increments and writes, no stored usage counter ever exceeds MAX_USAGE_COUNT.
C2_RacingSavesStayWithinMaximum ==
    \A id \in StoredIds : items[id].usageCount <= MAX_USAGE_COUNT

\* both requests charged item 1, each from the same stale read of 2, and are done
C2_Witness ==
    /\ \A r \in Requests :
          /\ reqs[r].route = "save-outfit" /\ reqs[r].pc = "done"
          /\ reqs[r].itemIds = <<1>>
          /\ reqs[r].read.usageCount = MAX_USAGE_COUNT - 1
    /\ items[1].usageCount = MAX_USAGE_COUNT
    /\ Len(outfits) = 2

(***************************************************************************)
(* Outfit generation: the client's OutfitEngine, POST /api/generate-outfit *)
(* and POST /api/generate-outfits.  A generated outfit is the sequence of  *)
(* its item ids with its score.                                            *)
(***************************************************************************)
\* garments a wardrobe is drawn from: the six sample items and one garment each of
\* the kinds the samples lack (a second bottom, an accessory, socks)
GarmentKinds ==
    {sampleItems[i] : i \in 1..6}
    \cup {[name |-> "Beige Chinos",       type |-> "bottom",      color |-> "Beige", usageCount |-> 0,
           imageHash |-> "hash_beige_chinos", imageUrl |-> ""],
          [name |-> "Brown Leather Belt", type |-> "accessories", color |-> "brown", usageCount |-> 0,
           imageHash |-> "hash_brown_belt",   imageUrl |-> ""],
          [name |-> "Gray Wool Socks",    type |-> "socks",       color |-> "gray",  usageCount |-> 0,
           imageHash |-> "hash_gray_socks",   imageUrl |-> ""]}

\* String.prototype.includes, for the keywords the scoring functions look for: the
\* keywords that occur in each lower-case name or color
includes(str, keyword) ==
    keyword \in
        CASE str = "navy cotton t-shirt"     -> {"navy", "t-shirt", "shirt"}
          [] str = "dark blue denim jeans"   -> {"dark", "jeans"}
          [] str = "black leather jacket"    -> {"black", "jacket"}
          [] str = "white button-down shirt" -> {"shirt"}
          [] str = "brown leather boots"     -> {"brown"}
          [] str = "gray wool sweater"       -> {}
          [] str = "beige chinos"            -> {"beige", "chinos"}
          [] str = "brown leather belt"      -> {"brown"}
          [] str = "gray wool socks"         -> {}
          [] str = "navy blue"               -> {"navy"}
          [] str = "dark blue"               -> {"dark"}
          [] str = "black"                   -> {"black"}
          [] str = "brown"                   -> {"brown"}
          [] str = "beige"                   -> {"beige"}
          [] OTHER -> {}

nameHas(item, keyword) == includes(toLowerCase(item.name), keyword)
colorHas(item, keyword) == includes(toLowerCase(item.color), keyword)

\* Array.prototype.filter by item type
ofType(pool, type) == SelectSeq(pool, LAMBDA item : item.type = type)

\* the number of elements of a sequence that satisfy a test
count(seq, Test(_)) == Len(SelectSeq(seq, Test))

\* Array.prototype.sort((a, b) => b.score - a.score): stable, by score descending
RECURSIVE sortByScore(_)
sortByScore(seq) ==
    IF Len(seq) <= 1 THEN seq
    ELSE LET head == sortByScore(SubSeq(seq, 1, Len(seq) - 1))
             last == seq[Len(seq)]
             keep == count(head, LAMBDA o : o.score >= last.score)
         IN  SubSeq(head, 1, keep) \o <<last>> \o SubSeq(head, keep + 1, Len(head))

\* Array.prototype.slice(0, n)
slice(seq, n) == SubSeq(seq, 1, Min(n, Len(seq)))

idsOf(outfit) == [k \in 1..Len(outfit) |-> outfit[k].id]

\* arr[i % arr.length], for a 0-based index i
at(arr, i) == arr[(i % Len(arr)) + 1]

Occasions == {"casual", "formal"}
Temperatures == {5, 20}
TimesOfDay == {"morning", "evening"}

\* the request context {occasion, temperature, timeOfDay}; season is read by no path
Rules == [occasion : Occasions, temperature : Temperatures, timeOfDay : TimesOfDay]

(***************************************************************************)
(* POST /api/generate-outfit                                               *)
(***************************************************************************)
maxOutfits == 3

\* getPersonalizedScore
getPersonalizedScore(outfit) ==
    LET matureItems == count(outfit, LAMBDA item :
            nameHas(item, "shirt") \/ nameHas(item, "chinos")
            \/ nameHas(item, "blazer") \/ nameHas(item, "polo"))
        athleticFriendly == count(outfit, LAMBDA item :
            nameHas(item, "polo") \/ nameHas(item, "chinos") \/ nameHas(item, "jacket")
            \/ (item.type = "top" /\ colorHas(item, "navy")))
        skinToneFriendly == count(outfit, LAMBDA item :
            colorHas(item, "navy") \/ colorHas(item, "brown") \/ colorHas(item, "olive")
            \/ colorHas(item, "cream") \/ colorHas(item, "beige"))
        masculineItems == count(outfit, LAMBDA item :
            ~nameHas(item, "dress") /\ ~nameHas(item, "skirt"))
    IN  100
        + (IF matureItems > 0 THEN 15 ELSE 0)
        + (IF athleticFriendly > 0 THEN 10 ELSE 0)
        + skinToneFriendly * 5
        + (IF masculineItems = Len(outfit) THEN 10 ELSE 0)

\* the body of the two loops for one (topIdx, bottomIdx), up to the minimum-size
\* rule: the items of the combination, or <<>> where the code says `continue`
personalizedCombination(available, topIdx, bottomIdx, rules) ==
    LET tops == ofType(available, "top")
        bottoms == ofType(available, "bottom")
        outerwear == ofType(available, "outerwear")
        shoes == ofType(available, "shoes")
        accessories == ofType(available, "accessories")
        socks == ofType(available, "socks")
        base == <<tops[topIdx + 1], bottoms[bottomIdx + 1]>>
        cold == rules.temperature < 14
        layered == IF cold /\ Len(outerwear) > 0
                   THEN Append(base, at(outerwear, topIdx)) ELSE base
        shod == IF Len(shoes) > 0 THEN Append(layered, at(shoes, topIdx)) ELSE layered
        dressed == IF rules.occasion \in {"formal", "business"} /\ Len(accessories) > 0
                   THEN Append(shod, at(accessories, topIdx)) ELSE shod
        socked == IF Len(socks) > 0 THEN Append(dressed, at(socks, topIdx)) ELSE dressed
        padded == IF Len(socked) < 3 /\ Len(accessories) > 0
                     /\ count(socked, LAMBDA item : item.type = "accessories") = 0
                  THEN Append(socked, accessories[1]) ELSE socked
    IN  IF cold /\ Len(outerwear) = 0 THEN <<>>
        ELSE IF Len(padded) < 3 THEN <<>>
        ELSE padded

\* the two nested loops, flattened: k = topIdx * bottoms.length + bottomIdx; both
\* loops stop once maxOutfits outfits are collected; usedCombinations holds the
\* (top id, bottom id) pairs of the outfits pushed
RECURSIVE personalizedLoop(_, _, _, _, _)
personalizedLoop(available, rules, k, collected, usedCombinations) ==
    LET tops == ofType(available, "top")
        bottoms == ofType(available, "bottom")
        topIdx == k \div Len(bottoms)
        bottomIdx == k % Len(bottoms)
        baseComboId == <<tops[topIdx + 1].id, bottoms[bottomIdx + 1].id>>
        outfit == personalizedCombination(available, topIdx, bottomIdx, rules)
    IN  IF k >= Len(tops) * Len(bottoms) \/ Len(collected) >= maxOutfits
        THEN collected
        ELSE IF baseComboId \in usedCombinations \/ outfit = <<>>
        THEN personalizedLoop(available, rules, k + 1, collected, usedCombinations)
        ELSE personalizedLoop(available, rules, k + 1,
                Append(collected, [items |-> idsOf(outfit),
                                   score |-> getPersonalizedScore(outfit)]),
                usedCombinations \cup {baseComboId})

\* the reason given with "Unable to create complete outfits", with the test of the
\* temperature left out
unableReasonIgnoringTemperature(temperature) == "Insufficient variety in wardrobe"

\* the reason given with "Unable to create complete outfits"
unableReason(temperature) ==
    IF temperature < 14
    THEN "No outerwear available for cold weather"
    ELSE "Insufficient variety in wardrobe"

\* the handler: its response for the wardrobe `store` and the request body `rules`
generateOutfit(store, rules) ==
    LET allItems == getClothingItemsByUser(store, DEMO_USER_ID)
        availableItems == SelectSeq(allItems, LAMBDA item : item.usageCount < 3)
        tops == ofType(availableItems, "top")
        bottoms == ofType(availableItems, "bottom")
        missing == (IF Len(tops) = 0 THEN <<"tops">> ELSE <<>>)
                   \o (IF Len(bottoms) = 0 THEN <<"bottoms">> ELSE <<>>)
        sorted == sortByScore(personalizedLoop(availableItems, rules, 0, <<>>, {}))
        answer == [path |-> "generate-outfit", rules |-> rules, maxResults |-> maxOutfits,
                   kind |-> "outfits", outfits |-> <<>>, missing |-> <<>>,
                   reason |-> "none"]
    IN  IF Len(tops) = 0 \/ Len(bottoms) = 0
        THEN [answer EXCEPT !.kind = "insufficient", !.missing = missing]
        ELSE IF Len(sorted) = 0
        THEN [answer EXCEPT !.kind = "unable",
                 !.reason = unableReason(rules.temperature)]
        ELSE [answer EXCEPT !.outfits = slice(sorted, maxOutfits)]

(***************************************************************************)
(* OutfitEngine (client)                                                   *)
(***************************************************************************)
scoreColorCombination(outfit) ==
    LET uniqueColors == {toLowerCase(outfit[k].color) : k \in 1..Len(outfit)}
    IN  IF Cardinality(uniqueColors) <= 3 THEN 10 ELSE 0 - 5

scoreOccasionAppropriate(outfit, occasion) ==
    LET formalItems == count(outfit, LAMBDA item :
            nameHas(item, "shirt") \/ nameHas(item, "blazer") \/ nameHas(item, "dress")
            \/ nameHas(item, "chinos") \/ nameHas(item, "dress shoes"))
        casualItems == count(outfit, LAMBDA item :
            nameHas(item, "t-shirt") \/ nameHas(item, "jeans")
            \/ nameHas(item, "sneakers") \/ nameHas(item, "polo"))
    IN  CASE occasion \in {"formal", "business"} ->
                IF formalItems > casualItems THEN 15 ELSE 0 - 10
          [] occasion = "casual" -> IF casualItems > 0 THEN 10 ELSE 0
          [] occasion = "smart-casual" ->
                IF formalItems > 0 /\ casualItems > 0 THEN 12 ELSE 5
          [] occasion = "party" -> IF formalItems > 0 THEN 8 ELSE 3
          [] OTHER -> 5

scoreWeatherAppropriate(outfit, temperature) ==
    LET hasOuterwear == count(outfit, LAMBDA item : item.type = "outerwear") > 0
    IN  IF temperature < 14 THEN (IF hasOuterwear THEN 15 ELSE 0 - 10)
        ELSE IF temperature > 25 THEN (IF hasOuterwear THEN 0 - 5 ELSE 5)
        ELSE 0

scoreTimeAppropriate(outfit, timeOfDay) ==
    LET darkColors == count(outfit, LAMBDA item :
            colorHas(item, "black") \/ colorHas(item, "navy") \/ colorHas(item, "dark"))
    IN  CASE timeOfDay \in {"evening", "night"} -> IF darkColors > 0 THEN 5 ELSE 0
          [] timeOfDay \in {"morning", "afternoon"} -> 2
          [] OTHER -> 0

\* the body of the engine's two loops for one (i, j)
engineCombination(pool, i, j, rules) ==
    LET tops == ofType(pool, "top")
        bottoms == ofType(pool, "bottom")
        outerwear == ofType(pool, "outerwear")
        shoes == ofType(pool, "shoes")
        accessories == ofType(pool, "accessories")
        base == <<at(tops, i), at(bottoms, j)>>
        layered == IF rules.temperature < 14 /\ Len(outerwear) > 0
                   THEN Append(base, at(outerwear, i)) ELSE base
        shod == IF Len(shoes) > 0 THEN Append(layered, at(shoes, i)) ELSE layered
    IN  IF rules.occasion \in {"formal", "business"} /\ Len(accessories) > 0
        THEN Append(shod, at(accessories, i)) ELSE shod

engineScore(outfit, rules) ==
    100 + scoreColorCombination(outfit)
        + scoreOccasionAppropriate(outfit, rules.occasion)
        + scoreWeatherAppropriate(outfit, rules.temperature)
        + scoreTimeAppropriate(outfit, rules.timeOfDay)

\* the two nested loops, flattened: k = i * min(maxSuggestions, bottoms.length) + j;
\* the inner loop breaks, and every later pass breaks at once, when maxSuggestions
\* outfits are collected
RECURSIVE engineLoop(_, _, _, _, _)
engineLoop(pool, rules, maxSuggestions, k, collected) ==
    LET iMax == Min(maxSuggestions, Len(ofType(pool, "top")))
        jMax == Min(maxSuggestions, Len(ofType(pool, "bottom")))
        outfit == engineCombination(pool, k \div jMax, k % jMax, rules)
    IN  IF k >= iMax * jMax \/ Len(collected) >= maxSuggestions
        THEN collected
        ELSE engineLoop(pool, rules, maxSuggestions, k + 1,
                Append(collected, [items |-> idsOf(outfit),
                                   score |-> engineScore(outfit, rules)]))

\* new OutfitEngine(items).generateOutfits(rules, maxSuggestions)
generateOutfits(wardrobe, rules, maxSuggestions) ==
    LET pool == SelectSeq(wardrobe, LAMBDA item : item.usageCount < 3)
        answer == [path |-> "engine", rules |-> rules, maxResults |-> maxSuggestions,
                   kind |-> "outfits", outfits |-> <<>>, missing |-> <<>>,
                   reason |-> "none"]
    IN  IF Len(ofType(pool, "top")) = 0 \/ Len(ofType(pool, "bottom")) = 0
        THEN [answer EXCEPT !.kind = "thrown",
                 !.reason = "Insufficient wardrobe items: Need at least one top and one bottom"]
        ELSE [answer EXCEPT !.outfits =
                 slice(sortByScore(engineLoop(pool, rules, maxSuggestions, 0, <<>>)),
                       maxSuggestions)]

(***************************************************************************)
(* POST /api/generate-outfits                                              *)
(***************************************************************************)
\* 85 + Math.random() * 15 lies in [85, 100): two of its values
MockScores == {85, 99}

\* the outfit of loop pass i
mockCombination(pool, i, rules) ==
    LET tops == ofType(pool, "top")
        bottoms == ofType(pool, "bottom")
        outerwear == ofType(pool, "outerwear")
        shoes == ofType(pool, "shoes")
        base == <<at(tops, i), at(bottoms, i)>>
        shod == IF Len(shoes) > 0 THEN Append(base, at(shoes, i)) ELSE base
    IN  IF Len(outerwear) > 0 /\ (rules.temperature < 60 \/ rules.occasion = "Work Smart")
        THEN Append(shod, at(outerwear, i)) ELSE shod

\* the handler's response, given the scores Math.random() produces for the passes
generateOutfitsRoute(store, rules, scores) ==
    LET pool == getClothingItemsByUser(store, DEMO_USER_ID)
        passes == Min(3, Len(ofType(pool, "top")) * Len(ofType(pool, "bottom")))
        answer == [path |-> "generate-outfits", rules |-> rules, maxResults |-> 3,
                   kind |-> "outfits", outfits |-> <<>>, missing |-> <<>>,
                   reason |-> "none"]
    IN  IF Len(pool) = 0
        THEN [answer EXCEPT !.kind = "empty",
                 !.reason = "No clothing items found. Please add some items to your wardrobe first."]
        ELSE [answer EXCEPT !.outfits =
                 [i \in 1..passes |->
                     [items |-> idsOf(mockCombination(pool, i - 1, rules)),
                      score |-> scores[i]]]]

(***************************************************************************)
(* Generation requests against a wardrobe.  A response depends on the      *)
(* wardrobe and the request alone, so a run answers one request.           *)
(***************************************************************************)
\* a generation that charges one use to every item it proposes
GenerateOutfitCharging ==
    \E rules \in Rules :
        /\ resp = NoResponse
        /\ resp' = generateOutfit(items, rules)
        /\ items' = [id \in DOMAIN items |->
                        IF \E k \in DOMAIN resp'.outfits :
                              \E j \in DOMAIN resp'.outfits[k].items :
                                  resp'.outfits[k].items[j] = id
                        THEN [items[id] EXCEPT !.usageCount = chargedUsage(@)]
                        ELSE items[id]]
        /\ UNCHANGED <<nextItemId, outfits, reqs, ledgerVars, dupVars, clientVars>>

\* POST /api/generate-outfit
GenerateOutfit ==
    \E rules \in Rules :
        /\ resp = NoResponse
        /\ resp' = generateOutfit(items, rules)
        /\ UNCHANGED <<storeVars, reqs, ledgerVars, dupVars, clientVars>>

\* the client builds an OutfitEngine over the wardrobe and asks it for outfits
EngineGenerateOutfits ==
    \E rules \in Rules, maxSuggestions \in 1..maxOutfits :
        /\ resp = NoResponse
        /\ resp' = generateOutfits(getClothingItemsByUser(items, DEMO_USER_ID),
                                   rules, maxSuggestions)
        /\ UNCHANGED <<storeVars, reqs, ledgerVars, dupVars, clientVars>>

\* POST /api/generate-outfits
GenerateOutfitsRoute ==
    \E rules \in Rules, scores \in [1..3 -> MockScores] :
        /\ resp = NoResponse
        /\ resp' = generateOutfitsRoute(items, rules, scores)
        /\ UNCHANGED <<storeVars, reqs, ledgerVars, dupVars, clientVars>>

\* the wardrobes: every sequence of at most MaxWardrobe garments, ids in order
Wardrobes ==
    UNION {[1..n -> GarmentKinds] : n \in 0..MaxWardrobe}

InitGen ==
    /\ \E w \in Wardrobes :
          items = [i \in 1..Len(w) |->
                      [id |-> i, userId |-> DEMO_USER_ID, name |-> w[i].name,
                       type |-> w[i].type, color |-> w[i].color,
                       imageUrl |-> w[i].imageUrl, imageHash |-> w[i].imageHash,
                       usageCount |-> w[i].usageCount]]
    /\ nextItemId = Len(items) + 1
    /\ outfits = <<>>
    /\ reqs = NoRequests
    /\ resp = NoResponse
    /\ uc = createUsageCount(0, MAX_USAGE_COUNT)
    /\ ucPrev = createUsageCount(0, MAX_USAGE_COUNT)
    /\ ucArg = [current |-> 0, maximum |-> MAX_USAGE_COUNT]
    /\ ucOp = "init"
    /\ verdict = NoVerdict
    /\ upload = NoUpload
    /\ customizedOutfits = NoCustomizations

NextGen ==
    \/ GenerateOutfit
    \/ EngineGenerateOutfits
    \/ GenerateOutfitsRoute

SpecGen == InitGen /\ [][NextGen]_vars

(***************************************************************************)
(* Claims about outfit generation, checked under SpecGen.                  *)
(***************************************************************************)
\* the ids of an outfit's items, as a set
itemSet(outfit) == {outfit.items[k] : k \in 1..Len(outfit.items)}

\* the number of an outfit's items of a type
typeCount(outfit, type) ==
    Cardinality({k \in 1..Len(outfit.items) : items[outfit.items[k]].type = type})

\* the items of the wardrobe that are below the usage limit, by type
availableOfType(type) ==
    {id \in StoredIds : items[id].type = type /\ items[id].usageCount < MAX_USAGE_COUNT}

\* C1: no outfit of any generation path contains an item whose usageCount is at or
\* above MAX_USES.
C1_NoItemAtLimit ==
    \A k \in 1..Len(resp.outfits) :
        \A id \in itemSet(resp.outfits[k]) : items[id].usageCount < MAX_USAGE_COUNT

\* C7: no two outfits of one response have equal sets of item ids.
C7_NoEqualItemSets ==
    \A a, b \in 1..Len(resp.outfits) :
        a # b => itemSet(resp.outfits[a]) # itemSet(resp.outfits[b])

\* C8: when the requested temperature is cold, every returned outfit has an
\* outerwear item; and with tops, bottoms and shoes but no outerwear available the
\* response is the explicit infeasibility result, with no outfit.
C8_ColdNeedsOuterwear ==
    (resp.path # "none" /\ resp.rules.temperature < 14) =>
        /\ \A k \in 1..Len(resp.outfits) : typeCount(resp.outfits[k], "outerwear") >= 1
        /\ ( /\ availableOfType("outerwear") = {}
              /\ availableOfType("top") # {}
              /\ availableOfType("bottom") # {}
              /\ availableOfType("shoes") # {} )
           => (resp.kind = "unable" /\ resp.outfits = <<>>)

\* C9: every returned outfit has at least 3 distinct items, exactly one top and
\* exactly one bottom, and at most min(maxResults, top-bottom combinations of the
\* available items) outfits are returned.
C9_OutfitShape ==
    /\ \A k \in 1..Len(resp.outfits) :
          /\ Cardinality(itemSet(resp.outfits[k])) >= 3
          /\ typeCount(resp.outfits[k], "top") = 1
          /\ typeCount(resp.outfits[k], "bottom") = 1
    /\ Len(resp.outfits) <=
          Min(resp.maxResults,
              Cardinality(availableOfType("top")) * Cardinality(availableOfType("bottom")))

\* C10: the returned list is sorted by score, highest first, and is no longer
\* than maxResults.
C10_SortedAndCapped ==
    /\ \A k \in 1..(Len(resp.outfits) - 1) :
          resp.outfits[k].score >= resp.outfits[k + 1].score
    /\ Len(resp.outfits) <= resp.maxResults

\* the categories the available items lack, of the two every outfit needs
missingCategories ==
    (IF availableOfType("top") = {} THEN {"tops"} ELSE {})
    \cup (IF availableOfType("bottom") = {} THEN {"bottoms"} ELSE {})

\* C11: when the items below the usage limit hold no top or no bottom, the
\* response has no outfit and is the insufficiency result, whose list of missing
\* categories names exactly the empty ones.
C11_InsufficiencyNamesMissing ==
    (resp.path # "none" /\ missingCategories # {}) =>
        /\ resp.outfits = <<>>
        /\ resp.kind = "insufficient"
        /\ {resp.missing[k] : k \in 1..Len(resp.missing)} = missingCategories

C13_ConditionsAreReturned == resp.kind # "thrown"

(***************************************************************************)
(* Duplicate checks against a pool of stored items.  A verdict depends on  *)
(* the pool and the inputs alone, so a run makes one check.                *)
(***************************************************************************)
\* a pool holds at most MaxPool items
MaxPool == 2

\* the candidates a pool is drawn from, and the new items checked against it: two
\* fingerprints one binary digit apart, one sixteen binary digits (four characters)
\* away, names that differ in case and blanks, a type in another case, names that
\* share two words, an item without a fingerprint and one with a sample's
PoolItems ==
    {[hash |-> "39b793c0f50b04da7f937b876a235ee2", name |-> "Navy Tee",
      type |-> "top", color |-> "navy"],
     [hash |-> "39b793c0f50b04da7f937b876a235ee3", name |-> "Gray Hat",
      type |-> "accessories", color |-> "gray"],
     [hash |-> "36257d32a0e685f409bfdbc549557e63", name |-> " navy tee",
      type |-> "top", color |-> "Navy"],
     [hash |-> "36257d32a0e685f409bfdbc549557e63", name |-> "Navy Tee",
      type |-> "Top", color |-> "navy"],
     [hash |-> "", name |-> "Navy Cotton Shirt", type |-> "top", color |-> "navy"],
     [hash |-> "c64893c0f50b04da7f937b876a235ee2", name |-> "Navy Cotton Polo",
      type |-> "top", color |-> "Navy"],
     [hash |-> "hash_navy_tshirt", name |-> "Blue Shirt", type |-> "top", color |-> "blue"]}

\* the filename argument: not provided, or one or two edits away from a pool name
Filenames == {"", "blueshirt1", "navytee1"}

\* strings handed to the similarity functions: empty, of odd length, in either case,
\* digests of 32 and 16 digits, not hexadecimal, and longer than 64 digits
Fingerprints ==
    {"", "abc", "ABC",
     "39b793c0f50b04da7f937b876a235ee2", "39b793c0f50b04da7f937b876a235ee3",
     "c64893c0f50b04da7f937b876a235ee2", "36257d32a0e685f409bfdbc549557e63",
     "7fc56270e7a70fa8", "hash_navy_tshirt", "hash_dark_jeans",
     "fffffffffffffffffffffffffffffffffffffffffffffffffffffffffffffffff",
     "80000000000000000000000000000000000000000000000000000000000000000"}

\* the pools: every sequence of at most MaxPool candidates
Pools == UNION {[1..n -> PoolItems] : n \in 0..MaxPool}

\* the candidates of detectDuplicate for the stored items of the user
existingItemsOf(store) ==
    LET userItems == getClothingItemsByUser(store, DEMO_USER_ID)
    IN  [k \in 1..Len(userItems) |->
            [hash |-> userItems[k].imageHash, name |-> userItems[k].name,
             type |-> userItems[k].type, color |-> userItems[k].color]]

\* the new items: the candidates themselves, and one whose name repeats a word
NewItems ==
    PoolItems \cup {[hash |-> "", name |-> "Navy Navy Tee", type |-> "top",
                     color |-> "navy"]}

\* detectDuplicate(newHash, newName, newType, newColor, existingItems, filename)
DetectDuplicate ==
    \E newItem \in NewItems, filename \in Filenames :
        /\ verdict = NoVerdict
        /\ verdict' = [op |-> "detectDuplicate", newItem |-> newItem, filename |-> filename,
                       result |-> detectDuplicate(newItem.hash, newItem.name, newItem.type,
                                                  newItem.color, existingItemsOf(items),
                                                  filename)]
        /\ UNCHANGED <<storeVars, reqs, resp, ledgerVars, upload, clientVars>>

\* checkForDuplicates(newHash, 1)
CheckForDuplicates ==
    \E newHash \in Fingerprints :
        /\ verdict = NoVerdict
        /\ verdict' = [op |-> "checkForDuplicates", newHash |-> newHash,
                       result |-> checkForDuplicates(items, newHash, DEMO_USER_ID)]
        /\ UNCHANGED <<storeVars, reqs, resp, ledgerVars, upload, clientVars>>

\* calculateHashSimilarity(hash1, hash2) of shared/utils
CalculateHashSimilarity ==
    \E hash1 \in Fingerprints, hash2 \in Fingerprints :
        /\ verdict = NoVerdict
        /\ verdict' = [op |-> "calculateHashSimilarity", hash1 |-> hash1, hash2 |-> hash2,
                       result |-> calculateHashSimilarity(hash1, hash2)]
        /\ UNCHANGED <<storeVars, reqs, resp, ledgerVars, upload, clientVars>>

InitDup ==
    /\ \E pool \in Pools :
          items = [i \in 1..Len(pool) |->
                      [id |-> i, userId |-> DEMO_USER_ID, name |-> pool[i].name,
                       type |-> pool[i].type, color |-> pool[i].color,
                       imageUrl |-> "", imageHash |-> pool[i].hash, usageCount |-> 0]]
    /\ nextItemId = Len(items) + 1
    /\ outfits = <<>>
    /\ reqs = NoRequests
    /\ resp = NoResponse
    /\ uc = createUsageCount(0, MAX_USAGE_COUNT)
    /\ ucPrev = createUsageCount(0, MAX_USAGE_COUNT)
    /\ ucArg = [current |-> 0, maximum |-> MAX_USAGE_COUNT]
    /\ ucOp = "init"
    /\ verdict = NoVerdict
    /\ upload = NoUpload
    /\ customizedOutfits = NoCustomizations

NextDup ==
    \/ DetectDuplicate
    \/ CheckForDuplicates

SpecDup == InitDup /\ [][NextDup]_vars

\* calculateHashSimilarity(hash1, hash2) of server/routes
CalculateHashSimilarityOfRoutes ==
    \E hash1 \in Fingerprints, hash2 \in Fingerprints :
        /\ verdict = NoVerdict
        /\ verdict' = [op |-> "calculateHashSimilarityOfRoutes", hash1 |-> hash1,
                       hash2 |-> hash2,
                       result |-> calculateHashSimilarityOfRoutes(hash1, hash2)]
        /\ UNCHANGED <<storeVars, reqs, resp, ledgerVars, upload, clientVars>>

\* the similarity functions in isolation: they read their two arguments only
InitSimilarity ==
    /\ items = <<>>
    /\ nextItemId = 1
    /\ outfits = <<>>
    /\ reqs = NoRequests
    /\ resp = NoResponse
    /\ uc = createUsageCount(0, MAX_USAGE_COUNT)
    /\ ucPrev = createUsageCount(0, MAX_USAGE_COUNT)
    /\ ucArg = [current |-> 0, maximum |-> MAX_USAGE_COUNT]
    /\ ucOp = "init"
    /\ verdict = NoVerdict
    /\ upload = NoUpload
    /\ customizedOutfits = NoCustomizations

NextSimilarity ==
    \/ CalculateHashSimilarity
    \/ CalculateHashSimilarityOfRoutes

SpecSimilarity == InitSimilarity /\ [][NextSimilarity]_vars

(***************************************************************************)
(* Claims about duplicate detection, checked under SpecDup, and about the  *)
(* similarity of fingerprints, checked under SpecSimilarity.               *)
(***************************************************************************)
\* the strategies of detectDuplicate that match some candidate of the pool, for the
\* inputs of the last call
matchingStrategies ==
    LET pool == existingItemsOf(items)
        new == verdict.newItem
    IN  {n \in 1..5 : \E k \in DOMAIN pool :
            strategyMatches(n, pool[k], new.hash, new.name, new.type, new.color,
                            verdict.filename)}

\* C14: the verdict of detectDuplicate comes from the lowest-numbered strategy that
\* matches any candidate of the pool: its reason, its similarity (100 for the exact
\* hash, at least 95 for a near hash, 90 for metadata, at least 85 for the filename,
\* 80 for a semantic match) and a matched item that this strategy matches; with no
\* matching strategy the verdict is no duplicate.
C14_StrategiesInPriorityOrder ==
    verdict.op = "detectDuplicate" =>
        LET lowest == first(matchingStrategies)
            new == verdict.newItem
            result == verdict.result
        IN  IF lowest = 0 THEN ~result.isDuplicate
            ELSE /\ result.isDuplicate
                 /\ strategyMatches(lowest, result.matchedItem, new.hash, new.name,
                                    new.type, new.color, verdict.filename)
                 /\ CASE lowest = 1 ->
                            /\ result.similarity = number(100)
                            /\ result.reason = "Identical image detected (exact hash match)"
                      [] lowest = 2 ->
                            /\ atLeast(result.similarity, 95)
                            /\ result.reason = "Very similar image detected ("
                                  \o toFixed1(result.similarity) \o "% similarity)"
                      [] lowest = 3 ->
                            /\ result.similarity = number(90)
                            /\ result.reason = "Identical item details (name, type, color)"
                      [] lowest = 4 ->
                            /\ atLeast(result.similarity, 85)
                            /\ result.reason = "Similar filename and type detected ("
                                  \o toFixed1(result.similarity) \o "% filename similarity)"
                      [] lowest = 5 ->
                            /\ result.similarity = number(80)
                            /\ result.reason =
                                  "Similar item with matching type and color detected"

\* the first candidate matches by its metadata only, the second has the new item's
\* hash, and the verdict is the exact-hash one for the second
C14_Witness ==
    /\ verdict.op = "detectDuplicate"
    /\ Len(existingItemsOf(items)) = 2
    /\ metadataMatches(existingItemsOf(items)[1], verdict.newItem.name,
                       verdict.newItem.type, verdict.newItem.color)
    /\ ~exactHashMatches(existingItemsOf(items)[1], verdict.newItem.hash)
    /\ exactHashMatches(existingItemsOf(items)[2], verdict.newItem.hash)
    /\ verdict.result.matchedItem = existingItemsOf(items)[2]
    /\ verdict.result.similarity = number(100)

\* the distinct words of more than 3 characters that two names share, compared in
\* lower case
sharedSignificantWords(newName, existingName) ==
    LET nameWords == split(toLowerCase(newName))
        existingWords == split(toLowerCase(existingName))
    IN  {nameWords[k] : k \in DOMAIN nameWords}
        \cap {w \in {existingWords[e] : e \in DOMAIN existingWords} : Len(w) > 3}

\* C26: when none of the strategies 1 to 4 matches any pool item, the verdict is a
\* semantic duplicate (similarity 80) if and only if some pool item has the new
\* item's category, its color ignoring case, and at least 2 distinct words of more
\* than 3 characters in common with its name.
C26_SemanticDuplicateIff ==
    (verdict.op = "detectDuplicate" /\ matchingStrategies \cap (1..4) = {}) =>
        LET pool == existingItemsOf(items)
            new == verdict.newItem
        IN  (verdict.result.isDuplicate /\ verdict.result.similarity = number(80))
            <=> \E k \in DOMAIN pool :
                    /\ pool[k].type = new.type
                    /\ toLowerCase(pool[k].color) = toLowerCase(new.color)
                    /\ Cardinality(sharedSignificantWords(new.name, pool[k].name)) >= 2

\* C15: a fingerprint with a similarity of at least 95 percent to that of some pool
\* item makes the verdict a duplicate, with the similarity computed for the matched
\* item, whatever the names are; and a verdict is never a duplicate on the strength
\* of a fingerprint whose similarity to every pool item is below 95 percent.  For
\* detectDuplicate the similarity is calculateHashSimilarity of shared/utils, for
\* checkForDuplicates the share of equal characters.
C15_NearFingerprintThreshold ==
    /\ verdict.op = "detectDuplicate" =>
          LET pool == existingItemsOf(items)
              new == verdict.newItem
              result == verdict.result
              near == {k \in DOMAIN pool :
                          /\ pool[k].hash # ""
                          /\ atLeast(calculateHashSimilarity(new.hash, pool[k].hash), 95)}
          IN  /\ near # {} =>
                    /\ result.isDuplicate
                    /\ result.similarity =
                          calculateHashSimilarity(new.hash, result.matchedItem.hash)
                    /\ atLeast(result.similarity, 95)
              /\ (near = {} /\ result.isDuplicate) =>
                    \A k \in DOMAIN pool :
                        result.reason \notin
                            {duplicateVerdict(1, pool[k], new.hash, verdict.filename).reason,
                             duplicateVerdict(2, pool[k], new.hash, verdict.filename).reason}
    /\ verdict.op = "checkForDuplicates" =>
          LET userItems == getClothingItemsByUser(items, DEMO_USER_ID)
              share(k) == calculateHashSimilarityOfRoutes(verdict.newHash,
                                                          userItems[k].imageHash)
              near == {k \in DOMAIN userItems :
                          /\ userItems[k].imageHash # ""
                          /\ share(k).num * 100 >= 95 * share(k).den}
          IN  /\ near # {} => verdict.result.isDuplicate
              /\ near = {} => ~verdict.result.isDuplicate

\* C16: when neither fingerprint strategy matches a candidate, the verdict of
\* detectDuplicate is a duplicate with similarity 90 if and only if some candidate
\* equals the new item in name, type and color, each compared without regard to case.
C16_MetadataMatchIffEqualIgnoringCase ==
    (verdict.op = "detectDuplicate" /\ matchingStrategies \cap {1, 2} = {}) =>
        LET pool == existingItemsOf(items)
            new == verdict.newItem
        IN  (verdict.result.isDuplicate /\ verdict.result.similarity = number(90))
            <=> \E k \in DOMAIN pool :
                    /\ toLowerCase(pool[k].name) = toLowerCase(new.name)
                    /\ toLowerCase(pool[k].type) = toLowerCase(new.type)
                    /\ toLowerCase(pool[k].color) = toLowerCase(new.color)

\* C18: calculateHashSimilarity returns a number within 0..100 for every pair of
\* strings, and for a pair of distinct non-empty strings of which one is not made
\* of hexadecimal digits that number is the string similarity of the pair.
C18_SimilarityTotalAndBounded ==
    verdict.op = "calculateHashSimilarity" =>
        /\ atLeast(verdict.result, 0)
        /\ atMost(verdict.result, 100)
        /\ ( /\ verdict.hash1 # "" /\ verdict.hash2 # ""
             /\ verdict.hash1 # verdict.hash2
             /\ (~isValidHex(verdict.hash1) \/ ~isValidHex(verdict.hash2)) )
           => verdict.result = calculateStringSimilarity(verdict.hash1, verdict.hash2)

\* two strings longer than 64 hexadecimal digits that differ in more than 256 binary
\* digits were compared, and the similarity is 0
C18_Witness ==
    /\ verdict.op = "calculateHashSimilarity"
    /\ Len(verdict.hash1) > 64 /\ Len(verdict.hash2) > 64
    /\ isValidHex(verdict.hash1) /\ isValidHex(verdict.hash2)
    /\ verdict.hash1 # verdict.hash2
    /\ verdict.result = number(0)

(***************************************************************************)
(* The upload routes.  server/routes holds two definitions of POST         *)
(* /api/upload, each with its own generateImageHash; a server runs the     *)
(* routes of one of the two.                                               *)
(***************************************************************************)
\* a request carries at most MaxBatch files or items
MaxBatch == 2

\* the requests that store items carry at most MaxUploaded files or items over the
\* life of the store
MaxUploaded == 2

\* the client edits at most MaxEdited of the generated outfits at a time
MaxEdited == 1

\* an item is added to an outfit of fewer than MaxOutfitItems items
MaxOutfitItems == 4

\* POST /api/outfits is served while fewer than MaxSavedOutfits outfits are stored
MaxSavedOutfits == 2

\* the uploaded files: two images and one file that is not an image
Files ==
    {[originalname |-> "a.jpg", buffer |-> "A"],
     [originalname |-> "b.jpg", buffer |-> "B"],
     [originalname |-> "c.jpg", buffer |-> "C"]}

\* req.files of a request
Batches == UNION {[1..n -> Files] : n \in 0..MaxBatch}

\* what the analysis of an image can answer
Analyses ==
    {[name |-> "Navy Cotton T-Shirt", type |-> "top", color |-> "navy"],
     [name |-> "Gray Wool Socks", type |-> "top", color |-> "gray"]}

\* clothingTypes of the schema: the categories an item can have
clothingTypes ==
    {"top", "bottom", "outerwear", "shoes", "accessories", "socks", "underwear"}

\* validTypes of analyzeWithGemini, first definition
validTypes == {"top", "bottom", "outerwear", "shoes", "accessories"}

\* what the classifier can say about an image, as parsed from its JSON answer
ClassifierAnswers ==
    {[name |-> "Navy Cotton T-Shirt", category |-> "top", color |-> "navy"],
     [name |-> "Gray Wool Socks", category |-> "top", color |-> "gray"],
     [name |-> "Floral Dress", category |-> "Dress", color |-> "Red"]}

\* analyzeWithGemini, first definition, from the parsed answer on: a category
\* outside validTypes becomes 'top'
analyzeWithGemini(analysis) ==
    LET category == IF toLowerCase(analysis.category) \in validTypes
                    THEN analysis.category ELSE "top"
    IN  [name |-> analysis.name, type |-> toLowerCase(category),
         color |-> toLowerCase(analysis.color)]

\* batchAnalyzeWithGemini, first definition, from the parsed answers on: the
\* category is lower-cased and passed on
batchAnalyzeWithGemini(analyses) ==
    [i \in DOMAIN analyses |->
        [name |-> analyses[i].name, type |-> toLowerCase(analyses[i].category),
         color |-> toLowerCase(analyses[i].color)]]

\* batchAnalyzeClothing, first definition, with the classifier configured: the
\* results it can return.  More than one image goes to the batch analysis, and to
\* the analysis one by one when that throws; one image is analysed by itself.
batchAnalyzeClothing(analyses) ==
    {[i \in DOMAIN analyses |-> analyzeWithGemini(analyses[i])]}
    \cup IF Len(analyses) > 1 THEN {batchAnalyzeWithGemini(analyses)} ELSE {}

\* the items of a flat lay, as the request body carries them
FlatLayItems ==
    {[name |-> "Gray Wool Socks", type |-> "top", color |-> "gray"],
     [name |-> "Navy Tee", type |-> "top", color |-> "navy"]}

FlatLayBodies == UNION {[1..n -> FlatLayItems] : n \in 0..MaxBatch}

\* the routes of the first definition
FirstDefinitionRoutes ==
    {"POST /api/upload (first)", "POST /api/add-flat-lay-items", "POST /api/check-duplicate"}

\* the routes of the second definition
SecondDefinitionRoutes == {"POST /api/upload (second)"}

\* the state of a request in progress: the store, the next id and the response lists
started(store, nextId) ==
    [store |-> store, nextId |-> nextId, hashes |-> <<>>,
     items |-> <<>>, duplicates |-> <<>>, errors |-> <<>>]

\* the message of the error that a storage call rejects with
StorageError == "storage error"

\* the body of the loop with an empty catch block: a file whose item the storage
\* rejects ends in no list
uploadFirstFileWithoutCatch(acc, file, analysis, rejected) ==
    LET imageHash == generateImageHash(file.buffer)
        duplicateCheck == checkForDuplicates(acc.store, imageHash, DEMO_USER_ID)
        refinedCategory == refineCategory(analysis.type, analysis.name, analysis.color, <<>>)
        usageCount == createUsageCount(0, MAX_USAGE_COUNT)
        store == createClothingItem(acc.store, acc.nextId,
                    [userId |-> DEMO_USER_ID, name |-> analysis.name,
                     type |-> refinedCategory.type, color |-> analysis.color,
                     imageUrl |-> dataUrl(file.buffer), imageHash |-> imageHash,
                     usageCount |-> usageCount.current])
    IN  IF duplicateCheck.isDuplicate
        THEN [acc EXCEPT !.hashes = Append(@, imageHash),
                         !.duplicates = Append(@, [filename |-> file.originalname,
                                                   similarItem |-> duplicateCheck.similarItem,
                                                   similarity |-> duplicateCheck.similarity])]
        ELSE IF rejected
        THEN [acc EXCEPT !.hashes = Append(@, imageHash)]
        ELSE [acc EXCEPT !.hashes = Append(@, imageHash),
                         !.store = store,
                         !.nextId = acc.nextId + 1,
                         !.items = Append(@, store[acc.nextId])]

\* POST /api/upload, first definition: the body of the loop for file i; rejected
\* tells whether storage.createClothingItem rejects for this file (a storage
\* backed by a database can; the catch block lists the file under errors)
uploadFirstFile(acc, file, analysis, rejected) ==
    LET imageHash == generateImageHash(file.buffer)
        duplicateCheck == checkForDuplicates(acc.store, imageHash, DEMO_USER_ID)
        refinedCategory == refineCategory(analysis.type, analysis.name, analysis.color, <<>>)
        usageCount == createUsageCount(0, MAX_USAGE_COUNT)
        store == createClothingItem(acc.store, acc.nextId,
                    [userId |-> DEMO_USER_ID, name |-> analysis.name,
                     type |-> refinedCategory.type, color |-> analysis.color,
                     imageUrl |-> dataUrl(file.buffer), imageHash |-> imageHash,
                     usageCount |-> usageCount.current])
    IN  IF duplicateCheck.isDuplicate
        THEN [acc EXCEPT !.hashes = Append(@, imageHash),
                         !.duplicates = Append(@, [filename |-> file.originalname,
                                                   similarItem |-> duplicateCheck.similarItem,
                                                   similarity |-> duplicateCheck.similarity])]
        ELSE IF rejected
        THEN [acc EXCEPT !.hashes = Append(@, imageHash),
                         !.errors = Append(@, [filename |-> file.originalname,
                                               error |-> StorageError])]
        ELSE [acc EXCEPT !.hashes = Append(@, imageHash),
                         !.store = store,
                         !.nextId = acc.nextId + 1,
                         !.items = Append(@, store[acc.nextId])]

RECURSIVE uploadFirstLoop(_, _, _, _, _)
uploadFirstLoop(acc, files, analyses, rejects, i) ==
    IF i > Len(files) THEN acc
    ELSE LET next == uploadFirstFile(acc, files[i], analyses[i], rejects[i])
         IN  IF Len(next.hashes) = i
             THEN uploadFirstLoop(next, files, analyses, rejects, i + 1)
             ELSE next

\* POST /api/upload, first definition
uploadFirst(store, nextId, files, analyses, rejects) ==
    LET done == uploadFirstLoop(started(store, nextId), files, analyses, rejects, 1)
    IN  IF Len(files) = 0
        THEN [status |-> 400, message |-> "No images uploaded", done |-> started(store, nextId)]
        ELSE [status |-> 200,
              message |-> ToString(Len(done.items)) \o " items added successfully",
              done |-> done]

\* POST /api/add-flat-lay-items: the body of the loop for item i (0-based in the hash)
addFlatLayItem(acc, item, now, i) ==
    LET itemSignature == item.name \o "_" \o item.type \o "_" \o item.color \o "_"
                         \o now \o "_" \o ToString(i - 1)
        imageHash == sliceString(md5(itemSignature), 0, 16)
        refinedCategory == refineCategory(item.type, item.name, item.color, <<>>)
        usageCount == createUsageCount(0, MAX_USAGE_COUNT)
        store == createClothingItem(acc.store, acc.nextId,
                    [userId |-> DEMO_USER_ID, name |-> item.name,
                     type |-> refinedCategory.type, color |-> item.color,
                     imageUrl |-> "", imageHash |-> imageHash,
                     usageCount |-> usageCount.current])
    IN  [acc EXCEPT !.hashes = Append(@, imageHash),
                    !.store = store,
                    !.nextId = acc.nextId + 1,
                    !.items = Append(@, store[acc.nextId])]

RECURSIVE addFlatLayLoop(_, _, _, _)
addFlatLayLoop(acc, body, now, i) ==
    IF i > Len(body) THEN acc
    ELSE LET next == addFlatLayItem(acc, body[i], now, i)
         IN  IF Len(next.hashes) = i THEN addFlatLayLoop(next, body, now, i + 1) ELSE next

\* POST /api/add-flat-lay-items, for a body whose items is an array and that carries
\* no originalImage
addFlatLayItems(store, nextId, body, now) ==
    LET done == addFlatLayLoop(started(store, nextId), body, now, 1)
    IN  [status |-> 200,
         message |-> ToString(Len(done.items)) \o " items added successfully from flat lay",
         done |-> done]

\* POST /api/upload, second definition: the first pass for file i.  A file that
\* does not decode gets a hash, is looked up, and is dropped when resizing throws.
uploadSecondPreprocess(acc, store, file, salt, i) ==
    LET imageHash == generateImageHashSecond(file.buffer, salt)
        existingItem == getClothingItemByHash(store, DEMO_USER_ID, imageHash)
    IN  IF existingItem # NoItem
        THEN [acc EXCEPT !.hashes = Append(@, imageHash),
                         !.duplicates = Append(@, [filename |-> file.originalname,
                                                   existingItem |-> existingItem.name])]
        ELSE IF ~decodable(file.buffer)
        THEN [acc EXCEPT !.hashes = Append(@, imageHash)]
        ELSE [acc EXCEPT !.hashes = Append(@, imageHash),
                         !.fileData = Append(@, [originalFile |-> file,
                                                 imageHash |-> imageHash,
                                                 index |-> i - 1])]

RECURSIVE uploadSecondFirstPass(_, _, _, _, _)
uploadSecondFirstPass(acc, store, files, salts, i) ==
    IF i > Len(files) THEN acc
    ELSE LET next == uploadSecondPreprocess(acc, store, files[i], salts[i], i)
         IN  IF Len(next.hashes) = i
             THEN uploadSecondFirstPass(next, store, files, salts, i + 1)
             ELSE next

\* POST /api/upload, second definition: the creation of the item for analysis i
uploadSecondCreate(acc, data, analysis) ==
    LET store == createClothingItem(acc.store, acc.nextId,
                    [userId |-> DEMO_USER_ID, name |-> analysis.name,
                     type |-> analysis.type, color |-> analysis.color,
                     imageUrl |-> resizedDataUrl(data.originalFile.buffer),
                     imageHash |-> data.imageHash, usageCount |-> 0])
    IN  [acc EXCEPT !.store = store,
                    !.nextId = acc.nextId + 1,
                    !.items = Append(@, store[acc.nextId])]

RECURSIVE uploadSecondSecondPass(_, _, _, _)
uploadSecondSecondPass(acc, fileData, analyses, i) ==
    IF i > Len(fileData) THEN acc
    ELSE LET next == uploadSecondCreate(acc, fileData[i], analyses[i])
         IN  IF Len(next.items) = i
             THEN uploadSecondSecondPass(next, fileData, analyses, i + 1)
             ELSE next

\* POST /api/upload, second definition; analyses has an answer for every file, of
\* which those of the files sent to the analysis are used
uploadSecond(store, nextId, files, analyses, salts) ==
    LET pass == uploadSecondFirstPass(
                    [hashes |-> <<>>, duplicates |-> <<>>, fileData |-> <<>>],
                    store, files, salts, 1)
        begun == [started(store, nextId) EXCEPT !.hashes = pass.hashes,
                                                !.duplicates = pass.duplicates]
        done == uploadSecondSecondPass(begun, pass.fileData, analyses, 1)
    IN  IF Len(files) = 0
        THEN [status |-> 400, message |-> "No files uploaded", done |-> started(store, nextId)]
        ELSE IF Len(pass.fileData) = 0
        THEN IF Len(pass.duplicates) > 0
             THEN [status |-> 409, message |-> "All items were duplicates", done |-> begun]
             ELSE [status |-> 400, message |-> "No valid files to process", done |-> begun]
        ELSE IF Len(done.duplicates) > 0
        THEN [status |-> 207,
              message |-> ToString(Len(done.items)) \o " items added, "
                          \o ToString(Len(done.duplicates)) \o " duplicates skipped",
              done |-> done]
        ELSE [status |-> 200,
              message |-> ToString(Len(done.items)) \o " items added successfully",
              done |-> done]

\* what a request leaves behind: the request, the store it met and the response
uploaded(route, files, answer) ==
    [route |-> route, files |-> files, before |-> items, hashes |-> answer.done.hashes,
     status |-> answer.status, message |-> answer.message, items |-> answer.done.items,
     duplicates |-> answer.done.duplicates, errors |-> answer.done.errors]

UploadFirst ==
    /\ upload.route \in {"none"} \cup FirstDefinitionRoutes
    /\ \E files \in {batch \in Batches :
                        Cardinality(DOMAIN items) + Len(batch) <= MaxUploaded} :
          \E answers \in [1..Len(files) -> ClassifierAnswers] :
              \E analyses \in batchAnalyzeClothing(answers),
                 rejects \in [1..Len(files) -> BOOLEAN] :
                  \E answer \in {uploadFirst(items, nextItemId, files, analyses, rejects)} :
                      /\ items' = answer.done.store
                      /\ nextItemId' = answer.done.nextId
                      /\ upload' = uploaded("POST /api/upload (first)", files, answer)
    /\ UNCHANGED <<outfits, reqs, resp, ledgerVars, verdict, clientVars>>

AddFlatLayItems ==
    /\ upload.route \in {"none"} \cup FirstDefinitionRoutes
    /\ \E body \in {b \in FlatLayBodies :
                       Cardinality(DOMAIN items) + Len(b) <= MaxUploaded},
          now \in Clock :
          \E answer \in {addFlatLayItems(items, nextItemId, body, now)} :
              /\ items' = answer.done.store
              /\ nextItemId' = answer.done.nextId
              /\ upload' = uploaded("POST /api/add-flat-lay-items", body, answer)
    /\ UNCHANGED <<outfits, reqs, resp, ledgerVars, verdict, clientVars>>

\* POST /api/check-duplicate with a file: the hash, the check, and the analysis of
\* a file that is no duplicate
CheckDuplicate ==
    /\ upload.route \in {"none"} \cup FirstDefinitionRoutes
    /\ \E file \in Files, analysis \in Analyses :
          \E duplicateCheck \in {checkForDuplicates(items, generateImageHash(file.buffer),
                                                    DEMO_USER_ID)} :
              upload' = [route |-> "POST /api/check-duplicate", files |-> <<file>>,
                         before |-> items,
                         hashes |-> <<generateImageHash(file.buffer)>>, status |-> 200,
                         isDuplicate |-> duplicateCheck.isDuplicate,
                         similarItem |-> IF duplicateCheck.isDuplicate
                                         THEN duplicateCheck.similarItem ELSE NoItem,
                         similarity |-> IF duplicateCheck.isDuplicate
                                        THEN <<duplicateCheck.similarity>> ELSE <<>>,
                         analysis |-> IF duplicateCheck.isDuplicate
                                      THEN <<>> ELSE <<analysis>>]
    /\ UNCHANGED <<storeVars, reqs, resp, ledgerVars, verdict, clientVars>>

UploadSecond ==
    /\ upload.route \in {"none"} \cup SecondDefinitionRoutes
    /\ \E files \in {batch \in Batches :
                        Cardinality(DOMAIN items) + Len(batch) <= MaxUploaded} :
          \E analyses \in [1..Len(files) -> Analyses], salts \in [1..Len(files) -> Salts] :
              \E answer \in {uploadSecond(items, nextItemId, files, analyses, salts)} :
                  /\ items' = answer.done.store
                  /\ nextItemId' = answer.done.nextId
                  /\ upload' = uploaded("POST /api/upload (second)", files, answer)
    /\ UNCHANGED <<outfits, reqs, resp, ledgerVars, verdict, clientVars>>

\* a store without items, so that every stored item was uploaded
InitUpload ==
    /\ items = <<>>
    /\ nextItemId = 1
    /\ outfits = <<>>
    /\ reqs = NoRequests
    /\ resp = NoResponse
    /\ uc = createUsageCount(0, MAX_USAGE_COUNT)
    /\ ucPrev = createUsageCount(0, MAX_USAGE_COUNT)
    /\ ucArg = [current |-> 0, maximum |-> MAX_USAGE_COUNT]
    /\ ucOp = "init"
    /\ verdict = NoVerdict
    /\ upload = NoUpload
    /\ customizedOutfits = NoCustomizations

NextUpload ==
    \/ UploadFirst
    \/ AddFlatLayItems
    \/ CheckDuplicate
    \/ UploadSecond

SpecUpload == InitUpload /\ [][NextUpload]_vars

(***************************************************************************)
(* Claims about the upload routes, checked under SpecUpload.               *)
(***************************************************************************)
\* the stored items that hold the bytes of the buffer, in a store
copiesOf(store, buffer) ==
    {k \in DOMAIN store : store[k].imageUrl = dataUrl(buffer)}

\* the entries of the duplicates list of the last response for a file name
duplicatesFor(filename) ==
    {k \in DOMAIN upload.duplicates : upload.duplicates[k].filename = filename}

\* C17: of two files or items of one batch that got the same fingerprint, at most
\* one is stored by the request, on every route that stores a batch.
C17_BatchDuplicatesNotBothStored ==
    upload.route \in {"POST /api/upload (first)", "POST /api/upload (second)",
                      "POST /api/add-flat-lay-items"} =>
        \A i \in DOMAIN upload.files, j \in DOMAIN upload.files :
            (i < j /\ upload.hashes[i] = upload.hashes[j]) =>
                Cardinality({k \in DOMAIN items \ DOMAIN upload.before :
                                items[k].imageHash = upload.hashes[i]}) <= 1

C20_FallbackNeverMatches ==
    /\ upload.route \in {"POST /api/upload (first)", "POST /api/upload (second)"} =>
          /\ Len(upload.hashes) = Len(upload.files)
          /\ \A i \in DOMAIN upload.files :
                ~decodable(upload.files[i].buffer) =>
                    duplicatesFor(upload.files[i].originalname) = {}
    /\ upload.route = "POST /api/upload (first)" =>
          \A k \in DOMAIN upload.duplicates :
              \A buffer \in Buffers :
                  upload.duplicates[k].similarItem.imageUrl = dataUrl(buffer)
                      => decodable(buffer)
    /\ upload.route = "POST /api/check-duplicate" =>
          (~decodable(upload.files[1].buffer) => ~upload.isDuplicate)

(***************************************************************************)
(* refineCategory in isolation: it reads its four arguments only.          *)
(***************************************************************************)

\* the names the classification is asked about
RefineNames ==
    {"Wool Chunky Cardigan", "Heavy Cardigan", "Cotton Cardigan", "Cardigan",
     "Light Wool Cardigan", "Wool Cardigan Jacket", "Denim Jacket", "Leather Jacket",
     "Navy Blazer", "Gray Wool Socks", "Winter Hoodie", "Hoodie", "Plain Shirt"}

RefineColors == {"gray", "navy"}

RefineTypes == {"top", "bottom", "cardigan"}

\* the temperature argument: not passed, or a number of degrees
RefineTemperatures == {<<>>, <<5>>, <<9>>, <<10>>, <<15>>}

\* a call of refineCategory(originalType, name, color, temperature)
RefineCategory ==
    \E originalType \in RefineTypes, name \in RefineNames, color \in RefineColors,
       temperature \in RefineTemperatures :
        /\ verdict = NoVerdict
        /\ verdict' = [op |-> "refineCategory", originalType |-> originalType,
                       name |-> name, color |-> color, temperature |-> temperature,
                       result |-> refineCategory(originalType, name, color, temperature)]
        /\ UNCHANGED <<storeVars, reqs, resp, ledgerVars, upload, clientVars>>

InitRefine ==
    /\ items = <<>>
    /\ nextItemId = 1
    /\ outfits = <<>>
    /\ reqs = NoRequests
    /\ resp = NoResponse
    /\ uc = createUsageCount(0, MAX_USAGE_COUNT)
    /\ ucPrev = createUsageCount(0, MAX_USAGE_COUNT)
    /\ ucArg = [current |-> 0, maximum |-> MAX_USAGE_COUNT]
    /\ ucOp = "init"
    /\ verdict = NoVerdict
    /\ upload = NoUpload
    /\ customizedOutfits = NoCustomizations

NextRefine ==
    \/ RefineCategory

SpecRefine == InitRefine /\ [][NextRefine]_vars

(***************************************************************************)
(* Claims about refineCategory, checked under SpecRefine.                  *)
(***************************************************************************)

\* the words that make a cardigan a heavy one
heavyFabricWords == <<"wool", "heavy", "chunky">>

\* C21: refineCategory("cardigan", "Wool Chunky Cardigan", "gray", 5) returns
\* outerwear / winter / 95, and a cardigan whose name has a heavy-fabric word
\* (wool, heavy, chunky) is classified as outerwear.
C21_HeavyCardiganIsOuterwear ==
    verdict.op = "refineCategory" =>
        /\ (/\ verdict.originalType = "cardigan"
            /\ verdict.name = "Wool Chunky Cardigan"
            /\ verdict.color = "gray"
            /\ verdict.temperature = <<5>>)
               => verdict.result = [type |-> "outerwear", subcategory |-> "winter",
                                    confidence |-> 95]
        /\ (/\ verdict.name \in {"Wool Chunky Cardigan", "Heavy Cardigan"}
            /\ verdict.temperature = <<5>>)
               => verdict.result.type = "outerwear"

\* the first rule with a keyword in the name and its condition satisfied, 0 if none
firstMatchingRule(name, color) ==
    LET matching == {k \in DOMAIN categoryRules :
                        /\ \E i \in DOMAIN categoryRules[k].keywords :
                              includesString(toLowerCase(name),
                                             categoryRules[k].keywords[i])
                        /\ \/ categoryRules[k].conditions = "none"
                           \/ conditionsHold(categoryRules[k], name, color)}
    IN  IF matching = {} THEN 0
        ELSE CHOOSE k \in matching : \A j \in matching : k <= j

\* C22: with a temperature below 10 and a first matching rule of subcategory
\* optional_outerwear the result is outerwear / winter / 95; with no temperature or
\* one of 10 or more it is that rule's primary category with confidence 90; with no
\* matching rule it is the original category with confidence 70.
C22_RefinementByFirstMatchingRule ==
    verdict.op = "refineCategory" =>
        LET k == firstMatchingRule(verdict.name, verdict.color)
            cold == Len(verdict.temperature) = 1 /\ verdict.temperature[1] < 10
        IN  /\ (k # 0 /\ cold /\ categoryRules[k].subcategory = "optional_outerwear")
                   => verdict.result = [type |-> "outerwear", subcategory |-> "winter",
                                        confidence |-> 95]
            /\ (k # 0 /\ ~cold)
                   => /\ verdict.result.type = categoryRules[k].primaryCategory
                      /\ verdict.result.confidence = 90
            /\ k = 0
                   => /\ verdict.result.type = verdict.originalType
                      /\ verdict.result.confidence = 70

\* a light cardigan at 5 degrees is classified as winter outerwear
C22_Witness ==
    /\ verdict.op = "refineCategory"
    /\ verdict.name = "Cotton Cardigan"
    /\ verdict.temperature = <<5>>
    /\ verdict.result = [type |-> "outerwear", subcategory |-> "winter",
                         confidence |-> 95]

\* C27: a top-bottom combination that the optional layers leave with fewer than 3
\* items gets an available accessory it does not hold yet and is kept, and is
\* dropped only if it still has fewer than 3 items: so no returned outfit has
\* fewer than 3 items, and a wardrobe whose combinations can only be completed by
\* an accessory gets at least one outfit, each with an accessory.
C27_PaddedWithAccessoryOrDiscarded ==
    resp.path # "none" =>
        /\ \A k \in 1..Len(resp.outfits) : Len(resp.outfits[k].items) >= 3
        /\ ( /\ availableOfType("top") # {}
              /\ availableOfType("bottom") # {}
              /\ availableOfType("accessories") # {}
              /\ availableOfType("shoes") = {}
              /\ availableOfType("socks") = {}
              /\ resp.rules.temperature >= 14 )
            => /\ Len(resp.outfits) >= 1
               /\ \A k \in 1..Len(resp.outfits) :
                     typeCount(resp.outfits[k], "accessories") >= 1

(***************************************************************************)
(* Claims about the effect of generation on the store, checked under       *)
(* SpecGen.                                                                *)
(***************************************************************************)

C23_StoredCategoryInEnum ==
    \A id \in DOMAIN items :
        items[id] # NoItem => items[id].type \in clothingTypes

(***************************************************************************)
(* The outfit generator component: the outfits of POST                     *)
(* /api/generate-outfit, and the edits of an outfit before it is saved.    *)
(* Items are held by id; the item objects are those of GET /api/wardrobe.  *)
(***************************************************************************)

\* getCurrentOutfitItems: customizedOutfits[outfitIndex] ||
\* generatedOutfits[outfitIndex]?.items || []  (an empty edited list is truthy)
getCurrentOutfitItems(customized, generatedOutfits, outfitIndex) ==
    IF customized[outfitIndex] # <<>> THEN customized[outfitIndex][1]
    ELSE IF outfitIndex \in DOMAIN generatedOutfits
    THEN generatedOutfits[outfitIndex].items
    ELSE <<>>

\* removeItemFromOutfit
removeItemFromOutfit(customized, generatedOutfits, outfitIndex, itemId) ==
    LET currentItems == getCurrentOutfitItems(customized, generatedOutfits, outfitIndex)
        updatedItems == SelectSeq(currentItems, LAMBDA item : item # itemId)
    IN  [customized EXCEPT ![outfitIndex] = <<updatedItems>>]

\* addItemToOutfit: an item that is in the outfit already is not added
addItemToOutfit(customized, generatedOutfits, outfitIndex, newItem) ==
    LET currentItems == getCurrentOutfitItems(customized, generatedOutfits, outfitIndex)
    IN  IF \E k \in DOMAIN currentItems : currentItems[k] = newItem
        THEN customized
        ELSE [customized EXCEPT ![outfitIndex] = <<Append(currentItems, newItem)>>]

\* replaceItemInOutfit: currentItems.map(item => item.id === oldItemId ? newItem : item)
replaceItemInOutfit(customized, generatedOutfits, outfitIndex, oldItemId, newItem) ==
    LET currentItems == getCurrentOutfitItems(customized, generatedOutfits, outfitIndex)
        updatedItems == [k \in DOMAIN currentItems |->
                            IF currentItems[k] = oldItemId THEN newItem
                            ELSE currentItems[k]]
    IN  [customized EXCEPT ![outfitIndex] = <<updatedItems>>]

\* resetOutfitToOriginal: delete updated[outfitIndex]
resetOutfitToOriginal(customized, outfitIndex) ==
    [customized EXCEPT ![outfitIndex] = <<>>]

\* getAvailableItemsForType, as ids
getAvailableItemsForType(wardrobeItems, itemType) ==
    {id \in DOMAIN wardrobeItems :
        /\ wardrobeItems[id] # NoItem
        /\ wardrobeItems[id].type = itemType
        /\ wardrobeItems[id].usageCount < 3}

\* getReplaceableItems, as ids
getReplaceableItems(wardrobeItems, currentItem) ==
    {id \in DOMAIN wardrobeItems :
        /\ wardrobeItems[id] # NoItem
        /\ wardrobeItems[id].type = wardrobeItems[currentItem].type
        /\ id # currentItem
        /\ wardrobeItems[id].usageCount < 3}

\* the outfits that are edited, or about to be: at most MaxEdited at a time
withinMaxEdited(customized, outfitIndex) ==
    Cardinality({i \in DOMAIN customized : customized[i] # <<>>} \cup {outfitIndex})
        <= MaxEdited

\* the types the "Add Item" dialog lists
AddableTypes == {"top", "bottom", "outerwear", "shoes", "accessories"}

\* the remove button of an item of an outfit
RemoveItemFromOutfit ==
    \E outfitIndex \in {i \in DOMAIN resp.outfits : withinMaxEdited(customizedOutfits, i)} :
        \E k \in DOMAIN getCurrentOutfitItems(customizedOutfits, resp.outfits, outfitIndex) :
            /\ customizedOutfits' = removeItemFromOutfit(customizedOutfits, resp.outfits,
                    outfitIndex,
                    getCurrentOutfitItems(customizedOutfits, resp.outfits, outfitIndex)[k])
            /\ UNCHANGED <<storeVars, reqs, resp, ledgerVars, dupVars>>

\* "Add Item": the dialog lists getAvailableItemsForType of every type
AddItemToOutfit ==
    \E outfitIndex \in {i \in DOMAIN resp.outfits : withinMaxEdited(customizedOutfits, i)},
       itemType \in AddableTypes :
        \E newItem \in getAvailableItemsForType(items, itemType) :
            /\ Len(getCurrentOutfitItems(customizedOutfits, resp.outfits, outfitIndex))
                  < MaxOutfitItems
            /\ customizedOutfits' = addItemToOutfit(customizedOutfits, resp.outfits,
                                                    outfitIndex, newItem)
            /\ UNCHANGED <<storeVars, reqs, resp, ledgerVars, dupVars>>

\* the replace button of an item: the dialog is opened for the item's type, offers
\* getReplaceableItems of the first item of that type in the outfit, and replaces
\* that first item
ReplaceItemInOutfit ==
    \E outfitIndex \in {i \in DOMAIN resp.outfits : withinMaxEdited(customizedOutfits, i)} :
        LET currentItems == getCurrentOutfitItems(customizedOutfits, resp.outfits,
                                                  outfitIndex)
        IN  \E k \in DOMAIN currentItems :
                LET sameType == {j \in DOMAIN currentItems :
                                    items[currentItems[j]].type
                                        = items[currentItems[k]].type}
                    currentItem == currentItems[first(sameType)]
                IN  \E newItem \in getReplaceableItems(items, currentItem) :
                        /\ customizedOutfits' = replaceItemInOutfit(customizedOutfits,
                                resp.outfits, outfitIndex, currentItem, newItem)
                        /\ UNCHANGED <<storeVars, reqs, resp, ledgerVars, dupVars>>

\* "Reset", shown for an outfit that has been edited
ResetOutfitToOriginal ==
    \E outfitIndex \in DOMAIN resp.outfits :
        /\ customizedOutfits[outfitIndex] # <<>>
        /\ customizedOutfits' = resetOutfitToOriginal(customizedOutfits, outfitIndex)
        /\ UNCHANGED <<storeVars, reqs, resp, ledgerVars, dupVars>>

\* the garments of the wardrobes that are edited: a top, a bottom and shoes
CustomizeKinds == {sampleItems[1], sampleItems[2], sampleItems[5]}

InitCustomize ==
    /\ \E w \in UNION {[1..n -> CustomizeKinds] : n \in 0..MaxWardrobe} :
          items = [i \in 1..Len(w) |->
                      [id |-> i, userId |-> DEMO_USER_ID, name |-> w[i].name,
                       type |-> w[i].type, color |-> w[i].color,
                       imageUrl |-> w[i].imageUrl, imageHash |-> w[i].imageHash,
                       usageCount |-> w[i].usageCount]]
    /\ nextItemId = Len(items) + 1
    /\ outfits = <<>>
    /\ reqs = NoRequests
    /\ resp = NoResponse
    /\ uc = createUsageCount(0, MAX_USAGE_COUNT)
    /\ ucPrev = createUsageCount(0, MAX_USAGE_COUNT)
    /\ ucArg = [current |-> 0, maximum |-> MAX_USAGE_COUNT]
    /\ ucOp = "init"
    /\ verdict = NoVerdict
    /\ upload = NoUpload
    /\ customizedOutfits = NoCustomizations

NextCustomize ==
    \/ GenerateOutfit
    \/ RemoveItemFromOutfit
    \/ AddItemToOutfit
    \/ ReplaceItemInOutfit
    \/ ResetOutfitToOriginal

SpecCustomize == InitCustomize /\ [][NextCustomize]_vars

(***************************************************************************)
(* Claims about the edited outfits, checked under SpecCustomize.           *)
(***************************************************************************)

\* no id occurs at two positions of the list
noDuplicateIds(itemIds) ==
    \A a, b \in DOMAIN itemIds : a # b => itemIds[a] # itemIds[b]

\* C28: no outfit's item list holds the same item id twice: not a generated outfit,
\* and not an outfit after any sequence of addItemToOutfit, removeItemFromOutfit,
\* replaceItemInOutfit and resetOutfitToOriginal.
C28_NoDuplicateItemIds ==
    \A outfitIndex \in DOMAIN resp.outfits :
        /\ noDuplicateIds(resp.outfits[outfitIndex].items)
        /\ noDuplicateIds(getCurrentOutfitItems(customizedOutfits, resp.outfits,
                                                outfitIndex))

(***************************************************************************)
(* POST /api/outfits as one request.  The ids of the body are JSON values: *)
(* [type |-> "number" or "string", text |-> the digits or the characters]. *)
(* The schema of the outfits table has two versions, one with an integer   *)
(* array and one with a text array of item ids.                            *)
(***************************************************************************)
NaN == <<>>

Digits == <<"0", "1", "2", "3", "4", "5", "6", "7", "8", "9">>

\* the length of the longest prefix of decimal digits
RECURSIVE digitPrefix(_)
digitPrefix(str) ==
    IF Len(str) > 0 /\ (\E d \in DOMAIN Digits : Digits[d] = charAt(str, 1))
    THEN 1 + digitPrefix(Tail(str))
    ELSE 0

\* the number that a string of decimal digits denotes
RECURSIVE digitsValue(_)
digitsValue(str) ==
    IF Len(str) = 0 THEN 0
    ELSE 10 * digitsValue(SubSeq(str, 1, Len(str) - 1))
         + (CHOOSE d \in DOMAIN Digits : Digits[d] = charAt(str, Len(str))) - 1

\* parseInt(string, 10) for strings without a sign: leading white space is skipped,
\* the longest prefix of digits is read and the rest is ignored; NaN without a digit.
\* The result is <<n>>, or NaN.
parseInt(string) ==
    LET str == trimStart(string)
        n == digitPrefix(str)
    IN  IF n = 0 THEN NaN ELSE <<digitsValue(SubSeq(str, 1, n))>>

\* typeof itemId === 'string' ? parseInt(itemId, 10) : itemId
numericIdOf(itemId) ==
    IF itemId.type = "string" THEN parseInt(itemId.text)
    ELSE <<digitsValue(itemId.text)>>

\* the two versions of outfits.itemIds: integer("item_ids").array() and
\* text("item_ids").array()
OutfitSchemas == {"integer", "text"}

\* insertOutfitSchema.parse(req.body) succeeds
parses(schema, itemIds) ==
    \A k \in DOMAIN itemIds :
        itemIds[k].type = (IF schema = "integer" THEN "number" ELSE "string")

\* the ids a body can carry
ItemIdInputs ==
    {[type |-> "number", text |-> "1"], [type |-> "number", text |-> "2"],
     [type |-> "number", text |-> "3"],
     [type |-> "string", text |-> "1"], [type |-> "string", text |-> "2"],
     [type |-> "string", text |-> "1abc"], [type |-> "string", text |-> "abc"]}

\* itemIds of a body: one or two ids
OutfitBodies == UNION {[1..n -> ItemIdInputs] : n \in 1..2}

\* POST /api/outfits without the test of the owner
postOutfitsAnyOwner(store, saved, schema, itemIds) ==
    LET invalid == {k \in DOMAIN itemIds :
                       \/ numericIdOf(itemIds[k]) = NaN
                       \/ getClothingItem(store, numericIdOf(itemIds[k])[1]) = NoItem}
        k == first(invalid)
    IN  IF ~parses(schema, itemIds)
        THEN [status |-> 400, message |-> "Invalid outfit data", outfits |-> saved]
        ELSE IF k # 0
        THEN [status |-> 400,
              message |-> (IF numericIdOf(itemIds[k]) = NaN
                           THEN "Invalid item ID format: " ELSE "Invalid item ID: ")
                          \o itemIds[k].text,
              outfits |-> saved]
        ELSE [status |-> 201, message |-> "",
              outfits |-> createOutfit(saved,
                  [userId |-> DEMO_USER_ID,
                   itemIds |-> [j \in DOMAIN itemIds |-> numericIdOf(itemIds[j])[1]]])]

\* POST /api/outfits: the body is parsed, the ids are checked in order and the
\* request ends at the first id that fails; otherwise the outfit is created, its
\* ids stored as numbers
postOutfits(store, saved, schema, itemIds) ==
    LET invalid == {k \in DOMAIN itemIds :
                       \/ numericIdOf(itemIds[k]) = NaN
                       \/ getClothingItem(store, numericIdOf(itemIds[k])[1]) = NoItem
                       \/ getClothingItem(store, numericIdOf(itemIds[k])[1]).userId
                              # DEMO_USER_ID}
        k == first(invalid)
    IN  IF ~parses(schema, itemIds)
        THEN [status |-> 400, message |-> "Invalid outfit data", outfits |-> saved]
        ELSE IF k # 0
        THEN [status |-> 400,
              message |-> (IF numericIdOf(itemIds[k]) = NaN
                           THEN "Invalid item ID format: " ELSE "Invalid item ID: ")
                          \o itemIds[k].text,
              outfits |-> saved]
        ELSE [status |-> 201, message |-> "",
              outfits |-> createOutfit(saved,
                  [userId |-> DEMO_USER_ID,
                   itemIds |-> [j \in DOMAIN itemIds |-> numericIdOf(itemIds[j])[1]]])]

\* a request to POST /api/outfits, answered before another request is served
PostOutfits ==
    \E schema \in OutfitSchemas, itemIds \in OutfitBodies :
        \E answer \in {postOutfits(items, outfits, schema, itemIds)} :
            /\ Len(outfits) < MaxSavedOutfits
            /\ outfits' = answer.outfits
            /\ verdict' = [op |-> "POST /api/outfits", schema |-> schema,
                           itemIds |-> itemIds, status |-> answer.status,
                           message |-> answer.message]
            /\ UNCHANGED <<items, nextItemId, reqs, resp, ledgerVars, upload, clientVars>>

\* the seeded store, its second item belonging to the demo user or to another one
InitOutfits ==
    /\ \E owner \in {DEMO_USER_ID, DEMO_USER_ID + 1} :
          items = [seededStore(SeedCount) EXCEPT ![SeedCount].userId = owner]
    /\ nextItemId = SeedCount + 1
    /\ outfits = <<>>
    /\ reqs = NoRequests
    /\ resp = NoResponse
    /\ uc = createUsageCount(0, MAX_USAGE_COUNT)
    /\ ucPrev = createUsageCount(0, MAX_USAGE_COUNT)
    /\ ucArg = [current |-> 0, maximum |-> MAX_USAGE_COUNT]
    /\ ucOp = "init"
    /\ verdict = NoVerdict
    /\ upload = NoUpload
    /\ customizedOutfits = NoCustomizations

NextOutfits ==
    \/ PostOutfits

SpecOutfits == InitOutfits /\ [][NextOutfits]_vars

(***************************************************************************)
(* Claims about POST /api/outfits, checked under SpecOutfits.              *)
(***************************************************************************)

\* the id is a JSON number, or a string of decimal digits only
isNumeric(itemId) ==
    \/ itemId.type = "number"
    \/ Len(itemId.text) > 0 /\ digitPrefix(itemId.text) = Len(itemId.text)

\* the id is that of a stored item of the demo user
refersToOwnItem(itemId) ==
    /\ numericIdOf(itemId) # NaN
    /\ getClothingItem(items, numericIdOf(itemId)[1]) # NoItem
    /\ getClothingItem(items, numericIdOf(itemId)[1]).userId = DEMO_USER_ID

\* the request stored an outfit, and nothing else changed
storedAnOutfit ==
    /\ Len(outfits') = Len(outfits) + 1
    /\ SubSeq(outfits', 1, Len(outfits)) = outfits
    /\ items' = items

positionsOf(list, accepted) == Cardinality({k \in DOMAIN list : list[k] \in accepted})

\* C30: a batch upload whose storage rejects the item of some file goes on with the
\* other files: every file is in exactly one of the lists of added items,
\* duplicates and errors, the sizes of the three lists sum to the number of files,
\* and the store holds what it held before and the added items, nothing else.
C30_EveryFileInOneList ==
    (upload.route = "POST /api/upload (first)" /\ Len(upload.files) > 0) =>
        /\ upload.status = 200
        /\ Len(upload.items) + Len(upload.duplicates) + Len(upload.errors)
              = Len(upload.files)
        /\ \A file \in Files :
              positionsOf(upload.files, {file})
                  = positionsOf(upload.items,
                        {item \in {upload.items[k] : k \in DOMAIN upload.items} :
                            item.imageUrl = dataUrl(file.buffer)})
                    + positionsOf(upload.duplicates,
                        {d \in {upload.duplicates[k] : k \in DOMAIN upload.duplicates} :
                            d.filename = file.originalname})
                    + positionsOf(upload.errors,
                        {e \in {upload.errors[k] : k \in DOMAIN upload.errors} :
                            e.filename = file.originalname})
        /\ DOMAIN items = DOMAIN upload.before
                          \cup {upload.items[k].id : k \in DOMAIN upload.items}
        /\ \A id \in DOMAIN upload.before : items[id] = upload.before[id]
        /\ \A k \in DOMAIN upload.items :
              /\ upload.items[k].id \notin DOMAIN upload.before
              /\ items[upload.items[k].id] = upload.items[k]

\* the storage rejected the first file of a batch and the second file was added
C30_Witness ==
    /\ upload.route = "POST /api/upload (first)"
    /\ Len(upload.files) = 2
    /\ Len(upload.errors) = 1
    /\ upload.errors[1].filename = upload.files[1].originalname
    /\ Len(upload.items) = 1
    /\ upload.items[1].imageUrl = dataUrl(upload.files[2].buffer)
    /\ upload.status = 200

\* the ledger in isolation: a caller holding one UsageCount, which starts as
\* createUsageCount() with its defaults, the way the upload routes call it
InitLedger ==
    /\ uc = createUsageCount(0, MAX_USAGE_COUNT)
    /\ ucPrev = createUsageCount(0, MAX_USAGE_COUNT)
    /\ ucArg = [current |-> 0, maximum |-> MAX_USAGE_COUNT]
    /\ ucOp = "init"
    /\ verdict = NoVerdict
    /\ upload = NoUpload
    /\ customizedOutfits = NoCustomizations
    /\ items = <<>>
    /\ nextItemId = 1
    /\ outfits = <<>>
    /\ reqs = NoRequests
    /\ resp = NoResponse

NextLedger ==
    \/ LedgerCreate
    \/ LedgerNormalize
    \/ LedgerIncrement
    \/ LedgerReset

SpecLedger == InitLedger /\ [][NextLedger]_vars

(***************************************************************************)
(* Claims about the usage ledger, checked under SpecLedger.                *)
(***************************************************************************)
\* C5 as stated: every counter the ledger returns, whatever integer pair it was
\* built from, satisfies 0 <= current <= maximum.
C5_AnyPairClamped == 0 <= uc.current /\ uc.current <= uc.maximum

\* C5 (amended): every counter built by createUsageCount, normalizeUsageCount,
\* incrementUsage or resetUsage with a maximum that is not negative satisfies
\* 0 <= current <= maximum.
C5_ClampedWhenMaximumNonNegative ==
    uc.maximum >= 0 => (0 <= uc.current /\ uc.current <= uc.maximum)

\* createUsageCount was handed a current above a non-negative maximum and cut it down
C5_Witness ==
    /\ ucOp = "create"
    /\ ucArg.maximum >= 0
    /\ ucArg.current > ucArg.maximum
    /\ uc.current = ucArg.maximum

\* C6 as stated: incrementUsage never returns current > maximum; at the limit it
\* returns its input unchanged, and otherwise current grows by exactly 1 with the
\* same maximum.
C6_IncrementAnyCounter ==
    ucOp = "increment" =>
        /\ uc.current <= uc.maximum
        /\ ucPrev.isAtLimit => uc = ucPrev
        /\ ~ucPrev.isAtLimit =>
              (uc.current = ucPrev.current + 1 /\ uc.maximum = ucPrev.maximum)

\* C6 (amended): the same, for every counter whose maximum is not negative.
C6_IncrementWhenMaximumNonNegative ==
    (ucOp = "increment" /\ ucPrev.maximum >= 0) =>
        /\ uc.current <= uc.maximum
        /\ ucPrev.isAtLimit => uc = ucPrev
        /\ ~ucPrev.isAtLimit =>
              (uc.current = ucPrev.current + 1 /\ uc.maximum = ucPrev.maximum)

\* an increment that took a usable counter to its limit
C6_Witness ==
    /\ ucOp = "increment"
    /\ ucPrev.maximum >= 0
    /\ ucPrev.canUse
    /\ uc.current = ucPrev.current + 1
    /\ uc.isAtLimit

====
